---------------------------- MODULE Spec2Model ----------------------------
(***************************************************************************)
(* A model of the quota state engine of claude-quota: the credential store *)
(* (OAuthCredentials: load, isExpired, GetAccessToken), the fetch pipeline *)
(* (QuotaClient.Fetch, setError, parseBucket, truncate), the projection    *)
(* engine (computeProjection, computeSaturationTime) and the snapshot      *)
(* accessor (QuotaClient.State), run by the goroutines the App starts.     *)
(*                                                                         *)
(* Conventions.                                                            *)
(*  - A Go pointer or optional value is a sequence of length 0 (nil) or 1. *)
(*  - A Go string that the code transforms (error texts) is the sequence   *)
(*    of its UTF-8 bytes; an access token is an opaque TLA+ string.        *)
(*  - time.Time and time.Duration are whole minutes; UnixMilli converts    *)
(*    an instant to the milliseconds the credential store compares.        *)
(*  - float64 utilizations are whole percents; a projected utilization is  *)
(*    the exact fraction num/den that the code rounds to a float64.        *)
(*  - int64 is two's complement of IntBits bits (TLC's integers are 32     *)
(*    bits wide, so the width is scaled; the wrap-around is kept).         *)
(***************************************************************************)
EXTENDS Integers, Sequences, FiniteSets, TLC

(***************************************************************************)
(* Bounds of the model.                                                    *)
(***************************************************************************)
\* Width in bits of the model's int64.
IntBits == 28
MaxLen == 3
MaxRunes == 3
\* The clock runs from 0 to MaxClock minutes.
MaxClock == 2

(***************************************************************************)
(* Optional values.                                                        *)
(***************************************************************************)
Nil == <<>>
Some(v) == <<v>>
IsNil(p) == p = <<>>
Deref(p) == p[1]

(***************************************************************************)
(* int64 arithmetic.                                                       *)
(***************************************************************************)
Modulus == 2 ^ IntBits
MinInt64 == -(2 ^ (IntBits - 1))
MaxInt64 == 2 ^ (IntBits - 1) - 1
\* The int64 that Go's wrapping arithmetic yields for the exact result x.
Wrap64(x) == ((x - MinInt64) % Modulus) + MinInt64

(***************************************************************************)
(* Strings: UTF-8 bytes, []rune(s) and string(runes).                      *)
(***************************************************************************)
RuneError == 65533

\* Number of bytes of the UTF-8 sequence that starts with byte b (1 for a
\* byte that starts no valid sequence: Go decodes it as RuneError, width 1).
Utf8Width(b) ==
    IF b < 128 THEN 1
    ELSE IF b >= 194 /\ b < 224 THEN 2
    ELSE IF b >= 224 /\ b < 240 THEN 3
    ELSE IF b >= 240 /\ b < 245 THEN 4
    ELSE 1

IsCont(s, i) == i <= Len(s) /\ s[i] >= 128 /\ s[i] < 192

\* The bytes Go's decoder takes for the rune that starts at byte i.
WidthAt(s, i) ==
    LET w == Utf8Width(s[i])
    IN  IF \A k \in 1..(w - 1) : IsCont(s, i + k) THEN w ELSE 1

\* The code point Go's decoder yields for the rune that starts at byte i.
DecodeAt(s, i) ==
    LET b == s[i]
        w == WidthAt(s, i)
    IN  IF w = 1 THEN (IF b < 128 THEN b ELSE RuneError)
        ELSE IF w = 2 THEN (b - 192) * 64 + (s[i + 1] - 128)
        ELSE IF w = 3
        THEN (b - 224) * 4096 + (s[i + 1] - 128) * 64 + (s[i + 2] - 128)
        ELSE (b - 240) * 262144 + (s[i + 1] - 128) * 4096
             + (s[i + 2] - 128) * 64 + (s[i + 3] - 128)

\* Whether Go's decoder starts a rune at byte i: no valid multi-byte
\* sequence that starts up to three bytes earlier reaches over it.
IsStart(s, i) ==
    ~\E d \in 1..3 : i - d >= 1 /\ WidthAt(s, i - d) > d

\* []rune(s[lo..hi]), of a range that starts and ends at rune boundaries.
\* The range is halved at the rune boundary nearest its middle (there is
\* one within three bytes), so that long texts need no deep recursion.
RECURSIVE RunesIn(_, _, _)
RunesIn(s, lo, hi) ==
    IF lo > hi THEN <<>>
    ELSE IF lo + WidthAt(s, lo) > hi THEN <<DecodeAt(s, lo)>>
    ELSE LET mid == (lo + hi + 1) \div 2
             near == {k \in (mid - 3)..(mid + 3) :
                        lo < k /\ k <= hi /\ IsStart(s, k)}
             dist(k) == IF k >= mid THEN k - mid ELSE mid - k
             m == CHOOSE k \in near : \A j \in near : dist(k) <= dist(j)
         IN  RunesIn(s, lo, m - 1) \o RunesIn(s, m, hi)

\* []rune(s): the code points of the byte string s.
Runes(s) == RunesIn(s, 1, Len(s))

\* The UTF-8 bytes of one code point.
EncodeRune(r) ==
    IF r < 128 THEN <<r>>
    ELSE IF r < 2048 THEN <<192 + (r \div 64), 128 + (r % 64)>>
    ELSE IF r < 65536
    THEN <<224 + (r \div 4096), 128 + ((r \div 64) % 64), 128 + (r % 64)>>
    ELSE <<240 + (r \div 262144), 128 + ((r \div 4096) % 64),
           128 + ((r \div 64) % 64), 128 + (r % 64)>>

\* string(runes).
RECURSIVE String(_)
String(runes) ==
    IF Len(runes) = 0 THEN <<>>
    ELSE IF Len(runes) = 1 THEN EncodeRune(runes[1])
    ELSE LET h == Len(runes) \div 2
         IN  String(SubSeq(runes, 1, h))
             \o String(SubSeq(runes, h + 1, Len(runes)))

\* A truncate that counts and cuts bytes.
truncate_Bytes(s, n) ==
    IF Len(s) <= n THEN s ELSE SubSeq(s, 1, n)

\* truncate(s, n): s when it has at most n runes, else its first n runes.
truncate(s, n) ==
    LET runes == Runes(s)
    IN  IF Len(runes) <= n THEN s ELSE String(SubSeq(runes, 1, n))

\* The budget Fetch passes to truncate.
ErrorBudget == 50

(***************************************************************************)
(* Error texts, as UTF-8 bytes.  The texts of load's errors go on with     *)
(* the credentials path and a hint; they are cut here after their fixed    *)
(* first words, which is past what any use of them keeps.                  *)
(***************************************************************************)
\* "OAuth token has expired — run 'claude login' to re-authenticate"
ErrTokenExpiredText ==
    <<79, 65, 117, 116, 104, 32, 116, 111, 107, 101, 110, 32, 104, 97, 115,
      32, 101, 120, 112, 105, 114, 101, 100, 32, 226, 128, 148, 32, 114,
      117, 110, 32, 39, 99, 108, 97, 117, 100, 101, 32, 108, 111, 103, 105,
      110, 39, 32, 116, 111, 32, 114, 101, 45, 97, 117, 116, 104, 101, 110,
      116, 105, 99, 97, 116, 101>>

\* " (reload failed: "
ReloadFailedInfix ==
    <<32, 40, 114, 101, 108, 111, 97, 100, 32, 102, 97, 105, 108, 101, 100,
      58, 32>>

\* "cannot read Claude credentials"
CannotReadText ==
    <<99, 97, 110, 110, 111, 116, 32, 114, 101, 97, 100, 32, 67, 108, 97,
      117, 100, 101, 32, 99, 114, 101, 100, 101, 110, 116, 105, 97, 108,
      115>>

\* "cannot parse Claude credentials"
CannotParseText ==
    <<99, 97, 110, 110, 111, 116, 32, 112, 97, 114, 115, 101, 32, 67, 108,
      97, 117, 100, 101, 32, 99, 114, 101, 100, 101, 110, 116, 105, 97,
      108, 115>>

\* "cannot determine current user"
NoUserText ==
    <<99, 97, 110, 110, 111, 116, 32, 100, 101, 116, 101, 114, 109, 105,
      110, 101, 32, 99, 117, 114, 114, 101, 110, 116, 32, 117, 115, 101,
      114>>

\* "security command failed"
SecurityFailedText ==
    <<115, 101, 99, 117, 114, 105, 116, 121, 32, 99, 111, 109, 109, 97,
      110, 100, 32, 102, 97, 105, 108, 101, 100>>

\* "cannot parse keychain JSON"
KeychainParseText ==
    <<99, 97, 110, 110, 111, 116, 32, 112, 97, 114, 115, 101, 32, 107,
      101, 121, 99, 104, 97, 105, 110, 32, 74, 83, 79, 78>>

\* "missing OAuth access token"
MissingTokenText ==
    <<109, 105, 115, 115, 105, 110, 103, 32, 79, 65, 117, 116, 104, 32, 97,
      99, 99, 101, 115, 115, 32, 116, 111, 107, 101, 110>>

\* "Token invalid — run 'claude login'"
Msg401 ==
    <<84, 111, 107, 101, 110, 32, 105, 110, 118, 97, 108, 105, 100, 32,
      226, 128, 148, 32, 114, 117, 110, 32, 39, 99, 108, 97, 117, 100, 101,
      32, 108, 111, 103, 105, 110, 39>>

\* "Scope missing user:profile"
Msg403 ==
    <<83, 99, 111, 112, 101, 32, 109, 105, 115, 115, 105, 110, 103, 32,
      117, 115, 101, 114, 58, 112, 114, 111, 102, 105, 108, 101>>

\* "HTTP "
HTTPPrefix ==
    <<72, 84, 84, 80, 32>>

\* "Get \"https://api.anthropic.com/api/oauth/usage\": dial tcp: i/o timeout"
DialErrorText ==
    <<71, 101, 116, 32, 34, 104, 116, 116, 112, 115, 58, 47, 47, 97, 112,
      105, 46, 97, 110, 116, 104, 114, 111, 112, 105, 99, 46, 99, 111, 109,
      47, 97, 112, 105, 47, 111, 97, 117, 116, 104, 47, 117, 115, 97, 103,
      101, 34, 58, 32, 100, 105, 97, 108, 32, 116, 99, 112, 58, 32, 105,
      47, 111, 32, 116, 105, 109, 101, 111, 117, 116>>

\* "EOF"
EOFText ==
    <<69, 79, 70>>

\* "invalid character 'n' looking for beginning of object key string"
InvalidCharText ==
    <<105, 110, 118, 97, 108, 105, 100, 32, 99, 104, 97, 114, 97, 99, 116,
      101, 114, 32, 39, 110, 39, 32, 108, 111, 111, 107, 105, 110, 103, 32,
      102, 111, 114, 32, 98, 101, 103, 105, 110, 110, 105, 110, 103, 32,
      111, 102, 32, 111, 98, 106, 101, 99, 116, 32, 107, 101, 121, 32, 115,
      116, 114, 105, 110, 103>>

(***************************************************************************)
(* Errors: a text and the sentinel errors that errors.Is finds in the      *)
(* chain (the error itself, and what it wraps with %w).                    *)
(***************************************************************************)
Error(text, chain) == [text |-> text, chain |-> chain]

ErrTokenExpired == Error(ErrTokenExpiredText, {"ErrTokenExpired"})

ErrorsIs(err, sentinel) == sentinel \in err.chain

\* fmt.Errorf("%w (reload failed: %v)", ErrTokenExpired, cause)
ReloadFailed(cause) ==
    Error(ErrTokenExpired.text \o ReloadFailedInfix \o cause.text \o <<41>>,
          ErrTokenExpired.chain)

\* The errors GetAccessToken can return, the texts qc.client.Do and
\* json.Decode fail with, and truncate(text, ErrorBudget) for each of
\* these texts, worked out once.
TokenErrors ==
    {ErrTokenExpired} \cup
    {ReloadFailed(Error(t, {})) :
        t \in {CannotReadText, CannotParseText, MissingTokenText}}

TransportErrors == {DialErrorText, EOFText}

DecodeErrors == {InvalidCharText, EOFText}

Truncated ==
    [t \in {e.text : e \in TokenErrors} \cup TransportErrors \cup DecodeErrors
        |-> truncate(t, ErrorBudget)]

(***************************************************************************)
(* The credential store.                                                   *)
(***************************************************************************)
MarginMs == 60000
MsPerMinute == 60 * 1000

\* time.Time.UnixMilli, of an instant in minutes.
UnixMilli(t) == t * MsPerMinute

\* The credentials file: absent or unreadable, not the JSON of a
\* credentialsFile, or a document whose claudeAiOauth has these two fields
\* (an absent field is its zero value, "" or 0).
MissingFile == [kind |-> "missing", accessToken |-> "", expiresAt |-> 0]
GarbageFile == [kind |-> "garbage", accessToken |-> "", expiresAt |-> 0]
JsonFile(tok, exp) == [kind |-> "json", accessToken |-> tok, expiresAt |-> exp]

\* OAuthCredentials{accessToken, expiresAt}
Creds(tok, exp) == [accessToken |-> tok, expiresAt |-> exp]

\* A load that stores the expiry before it looks at the access token.
load_ExpiryFirst(oc, file) ==
    IF file.kind = "missing"
    THEN [oc |-> oc, err |-> Some(Error(CannotReadText, {}))]
    ELSE IF file.kind = "garbage"
    THEN [oc |-> oc, err |-> Some(Error(CannotParseText, {}))]
    ELSE IF file.accessToken = ""
    THEN [oc |-> Creds(oc.accessToken, file.expiresAt),
          err |-> Some(Error(MissingTokenText, {}))]
    ELSE [oc |-> Creds(file.accessToken, file.expiresAt), err |-> Nil]

\* load: the store after the call and the error returned.
load(oc, file) ==
    IF file.kind = "missing"
    THEN [oc |-> oc, err |-> Some(Error(CannotReadText, {}))]
    ELSE IF file.kind = "garbage"
    THEN [oc |-> oc, err |-> Some(Error(CannotParseText, {}))]
    ELSE IF file.accessToken = ""
    THEN [oc |-> oc, err |-> Some(Error(MissingTokenText, {}))]
    ELSE [oc |-> Creds(file.accessToken, file.expiresAt), err |-> Nil]

\* A NewOAuthCredentials that hands out the empty store when load fails.
NewOAuthCredentials_Lenient(file) ==
    LET l == load(Creds("", 0), file)
    IN  [oc |-> Some(l.oc), err |-> l.err]

\* NewOAuthCredentials: the store (a pointer, nil on failure) and the error.
NewOAuthCredentials(file) ==
    LET l == load(Creds("", 0), file)
    IN  IF ~IsNil(l.err) THEN [oc |-> Nil, err |-> l.err]
        ELSE [oc |-> Some(l.oc), err |-> Nil]

\* loadFromFile: the reading of the credentials file, which sets both
\* fields of the store or neither.
loadFromFile(oc, file) == load(oc, file)

\* What the Keychain lookup meets: no current user, a failing security
\* command, an entry that is not JSON, or a JSON entry.
NoUserKeychain == [kind |-> "nouser", accessToken |-> "", expiresAt |-> 0]
NoEntryKeychain == [kind |-> "failed", accessToken |-> "", expiresAt |-> 0]
GarbageKeychain == [kind |-> "garbage", accessToken |-> "", expiresAt |-> 0]
JsonKeychain(tok, exp) ==
    [kind |-> "json", accessToken |-> tok, expiresAt |-> exp]

\* loadFromKeychain: the credentialsFile decoded from the entry, or an error.
loadFromKeychain(keychain) ==
    IF keychain.kind = "nouser"
    THEN [creds |-> Nil, err |-> Some(Error(NoUserText, {}))]
    ELSE IF keychain.kind = "failed"
    THEN [creds |-> Nil, err |-> Some(Error(SecurityFailedText, {}))]
    ELSE IF keychain.kind = "garbage"
    THEN [creds |-> Nil, err |-> Some(Error(KeychainParseText, {}))]
    ELSE [creds |-> Some(Creds(keychain.accessToken, keychain.expiresAt)),
          err |-> Nil]

\* A darwin load that keeps the Keychain's expiry when it falls back to the
\* file for want of a token.
loadDarwin_KeepExpiry(oc, keychain, file) ==
    LET k == loadFromKeychain(keychain)
    IN  IF ~IsNil(k.err) THEN loadFromFile(oc, file)
        ELSE IF Deref(k.creds).accessToken = ""
        THEN LET l == loadFromFile(oc, file)
             IN  IF IsNil(l.err) /\ Deref(k.creds).expiresAt # 0
                 THEN [oc |-> Creds(l.oc.accessToken,
                                    Deref(k.creds).expiresAt),
                       err |-> Nil]
                 ELSE l
        ELSE [oc |-> Deref(k.creds), err |-> Nil]

\* load on darwin: the Keychain first, the file when the lookup fails or
\* its entry has no access token.
loadDarwin(oc, keychain, file) ==
    LET k == loadFromKeychain(keychain)
    IN  IF ~IsNil(k.err) THEN loadFromFile(oc, file)
        ELSE IF Deref(k.creds).accessToken = ""
        THEN loadFromFile(oc, file)
        ELSE [oc |-> Deref(k.creds), err |-> Nil]

\* isExpired without the case of an expiresAt of 0.
isExpired_ZeroIsStated(expiresAt, nowMs) ==
    nowMs >= Wrap64(expiresAt - MarginMs)

\* isExpired, of the store's expiresAt at time.Now().UnixMilli() = nowMs.
isExpired(expiresAt, nowMs) ==
    IF expiresAt = 0 THEN FALSE
    ELSE nowMs >= Wrap64(expiresAt - MarginMs)

\* GetAccessToken between Lock and Unlock: the store after the call, the
\* token and error returned, and whether the credentials file was read.
GetAccessToken(oc, file, nowMs) ==
    IF isExpired(oc.expiresAt, nowMs)
    THEN LET l == load(oc, file)
         IN  IF ~IsNil(l.err)
             THEN [oc |-> l.oc, tok |-> "", read |-> TRUE,
                   err |-> Some(ReloadFailed(Deref(l.err)))]
             ELSE IF isExpired(l.oc.expiresAt, nowMs)
             THEN [oc |-> l.oc, tok |-> "", read |-> TRUE,
                   err |-> Some(ErrTokenExpired)]
             ELSE [oc |-> l.oc, tok |-> l.oc.accessToken, read |-> TRUE,
                   err |-> Nil]
    ELSE [oc |-> oc, tok |-> oc.accessToken, read |-> FALSE, err |-> Nil]

(***************************************************************************)
(* The projection engine.                                                  *)
(***************************************************************************)
\* 5 * time.Hour, in minutes.
fiveHourWindow == 5 * 60

\* computeProjection: nil, or current * windowDuration / timeElapsed as the
\* fraction num/den.
\* computeProjection that caps the projection at 100.
computeProjection_Capped(current, resetsAt, now, windowDuration) ==
    IF current <= 0 \/ ~(resetsAt > now) \/ windowDuration <= 0 THEN Nil
    ELSE LET timeUntilReset == resetsAt - now
             timeElapsed == windowDuration - timeUntilReset
         IN  IF timeElapsed <= 0 THEN Nil
             ELSE IF current * windowDuration > 100 * timeElapsed
             THEN Some([num |-> 100, den |-> 1])
             ELSE Some([num |-> current * windowDuration,
                        den |-> timeElapsed])

computeProjection(current, resetsAt, now, windowDuration) ==
    IF current <= 0 \/ ~(resetsAt > now) \/ windowDuration <= 0 THEN Nil
    ELSE LET timeUntilReset == resetsAt - now
             timeElapsed == windowDuration - timeUntilReset
         IN  IF timeElapsed <= 0 THEN Nil
             ELSE Some([num |-> current * windowDuration,
                        den |-> timeElapsed])

\* projected > limit, of a fraction with a positive denominator.
FracGt(f, limit) == f.num > limit * f.den

\* The builds: Go leaves the conversion of a float64 that int64 cannot
\* hold to the implementation.
GoArchs == {"amd64", "arm64"}

\* time.Duration(f), of a float64 f >= 0 with integer part q: q when int64
\* holds it, else what the build's instruction gives, the least int64 on
\* amd64 and the greatest on arm64.
Float64ToDuration(q, goarch) ==
    IF q <= MaxInt64 THEN q
    ELSE IF goarch = "amd64" THEN MinInt64
    ELSE MaxInt64

\* computeSaturationTime that takes the time to 100% for the time from 0
\* to 100% at the average rate.
computeSaturationTime_FromZero(current, resetsAt, now, windowDuration, goarch) ==
    IF current <= 0 \/ current >= 100 \/ ~(resetsAt > now)
       \/ windowDuration <= 0
    THEN Nil
    ELSE LET timeUntilReset == resetsAt - now
             timeElapsed == windowDuration - timeUntilReset
         IN  IF timeElapsed <= 0 THEN Nil
             ELSE LET timeToSaturation ==
                          Float64ToDuration((timeElapsed * 100) \div current,
                                            goarch)
                      saturation == now + timeToSaturation
                  IN  IF ~(saturation < resetsAt) THEN Nil
                      ELSE Some(saturation)

\* computeSaturationTime without its guard against a utilization of 100
\* or more.
computeSaturationTime_NoCeiling(current, resetsAt, now, windowDuration, goarch) ==
    IF current <= 0 \/ ~(resetsAt > now) \/ windowDuration <= 0
    THEN Nil
    ELSE LET timeUntilReset == resetsAt - now
             timeElapsed == windowDuration - timeUntilReset
         IN  IF timeElapsed <= 0 THEN Nil
             ELSE LET timeToSaturation ==
                          Float64ToDuration(
                              (timeElapsed * (100 - current)) \div current,
                              goarch)
                      saturation == now + timeToSaturation
                  IN  IF ~(saturation < resetsAt) THEN Nil
                      ELSE Some(saturation)

\* computeSaturationTime on the build goarch: nil, or now + timeElapsed *
\* (100 - current) / current, the quotient truncated to the clock's
\* resolution as the code truncates it to a time.Duration.
computeSaturationTime(current, resetsAt, now, windowDuration, goarch) ==
    IF current <= 0 \/ current >= 100 \/ ~(resetsAt > now)
       \/ windowDuration <= 0
    THEN Nil
    ELSE LET timeUntilReset == resetsAt - now
             timeElapsed == windowDuration - timeUntilReset
         IN  IF timeElapsed <= 0 THEN Nil
             ELSE LET timeToSaturation ==
                          Float64ToDuration(
                              (timeElapsed * (100 - current)) \div current,
                              goarch)
                      saturation == now + timeToSaturation
                  IN  IF ~(saturation < resetsAt) THEN Nil
                      ELSE Some(saturation)

(***************************************************************************)
(* The fetch pipeline: snapshots and the parsing of a response.            *)
(***************************************************************************)
\* QuotaState{}: the zero snapshot.
EmptyState ==
    [FiveHour |-> Nil, FiveHourResets |-> Nil, FiveHourProjected |-> Nil,
     FiveHourSaturation |-> Nil, SevenDay |-> Nil, SevenDayResets |-> Nil,
     SevenDaySonnet |-> Nil, SevenDaySonnetResets |-> Nil,
     LastUpdate |-> Nil, Error |-> <<>>, TokenExpired |-> FALSE]

\* A resets_at string: the RFC3339 text of an instant, or other text.
Rfc3339(t) == [rfc3339 |-> TRUE, t |-> t]
NotATime == [rfc3339 |-> FALSE, t |-> 0]

\* time.Parse(time.RFC3339, s)
ParseTime(s) == IF s.rfc3339 THEN [ok |-> TRUE, t |-> s.t]
                ELSE [ok |-> FALSE, t |-> 0]

\* A usageBucket, and the usageResponse of three optional buckets.
Bucket(util, resets) == [Utilization |-> util, ResetsAt |-> resets]
Response(five, seven, sonnet) ==
    [FiveHour |-> five, SevenDay |-> seven, SevenDaySonnet |-> sonnet]

\* parseBucket: the utilization and reset time it stores.
\* parseBucket that gives up on the bucket when its time does not parse.
parseBucket_GiveUp(bucket) ==
    IF IsNil(bucket) THEN [util |-> Nil, resets |-> Nil]
    ELSE LET b == Deref(bucket)
             util == IF ~IsNil(b.Utilization) THEN Some(Deref(b.Utilization))
                     ELSE Nil
         IN  IF ~IsNil(b.ResetsAt)
             THEN LET p == ParseTime(Deref(b.ResetsAt))
                  IN  IF ~p.ok THEN [util |-> Nil, resets |-> Nil]
                      ELSE [util |-> util, resets |-> Some(p.t)]
             ELSE [util |-> util, resets |-> Nil]

parseBucket(bucket) ==
    IF IsNil(bucket) THEN [util |-> Nil, resets |-> Nil]
    ELSE LET b == Deref(bucket)
             util == IF ~IsNil(b.Utilization) THEN Some(Deref(b.Utilization))
                     ELSE Nil
         IN  IF ~IsNil(b.ResetsAt)
             THEN LET p == ParseTime(Deref(b.ResetsAt))
                  IN  IF ~p.ok THEN [util |-> util, resets |-> Nil]
                      ELSE [util |-> util, resets |-> Some(p.t)]
             ELSE [util |-> util, resets |-> Nil]

\* The snapshot Fetch builds from a decoded 200 response at time now, on
\* the build goarch.
NewState(data, now, goarch) ==
    LET five == parseBucket(data.FiveHour)
        seven == parseBucket(data.SevenDay)
        sonnet == parseBucket(data.SevenDaySonnet)
        projected ==
            IF ~IsNil(five.util) /\ ~IsNil(five.resets)
            THEN computeProjection(Deref(five.util), Deref(five.resets),
                                   now, fiveHourWindow)
            ELSE Nil
        saturation ==
            IF ~IsNil(projected) /\ FracGt(Deref(projected), 100)
            THEN computeSaturationTime(Deref(five.util), Deref(five.resets),
                                       now, fiveHourWindow, goarch)
            ELSE Nil
    IN  [FiveHour |-> five.util, FiveHourResets |-> five.resets,
         FiveHourProjected |-> projected, FiveHourSaturation |-> saturation,
         SevenDay |-> seven.util, SevenDayResets |-> seven.resets,
         SevenDaySonnet |-> sonnet.util,
         SevenDaySonnetResets |-> sonnet.resets,
         LastUpdate |-> Some(now), Error |-> <<>>, TokenExpired |-> FALSE]

\* The buckets of a decoded response for which Fetch calls
\* computeProjection: the five-hour bucket, when it has both values.
ProjectionCalls(data) ==
    LET five == parseBucket(data.FiveHour)
    IN  IF ~IsNil(five.util) /\ ~IsNil(five.resets) THEN {"FiveHour"}
        ELSE {}

\* The snapshot Fetch installs when GetAccessToken fails with err.
TokenErrorState(err) ==
    [EmptyState EXCEPT !.Error = Truncated[err.text],
                       !.TokenExpired = ErrorsIs(err, "ErrTokenExpired")]

\* setError that sets Error in the snapshot it finds.
setError_InPlace(cur, msg) == [cur EXCEPT !.Error = msg]

\* setError that keeps the time of the last update.
setError_KeepUpdate(cur, msg) ==
    [EmptyState EXCEPT !.Error = msg, !.LastUpdate = cur.LastUpdate]

\* setError that keeps the TokenExpired flag.
setError_KeepFlag(cur, msg) ==
    [EmptyState EXCEPT !.Error = msg, !.TokenExpired = cur.TokenExpired]

\* setError: the snapshot it installs over cur.
setError(cur, msg) == [EmptyState EXCEPT !.Error = msg]

\* strconv of a non-negative int, as fmt's %d prints it.
RECURSIVE Itoa(_)
Itoa(n) == IF n < 10 THEN <<48 + n>> ELSE Itoa(n \div 10) \o <<48 + (n % 10)>>

\* The message of a response whose status is not 200.
StatusMessage(code) ==
    IF code = 401 THEN Msg401
    ELSE IF code = 403 THEN Msg403
    ELSE HTTPPrefix \o Itoa(code)

\* Whether snapshot a is stamped later than snapshot b.
Newer(a, b) ==
    /\ ~IsNil(a.LastUpdate)
    /\ ~IsNil(b.LastUpdate)
    /\ Deref(a.LastUpdate) > Deref(b.LastUpdate)

\* An assignment that keeps the present snapshot when it is stamped later.
Assign_UnlessStale(cur, newState) ==
    IF Newer(cur, newState) THEN cur ELSE newState

\* An assignment that lets a TokenExpired flag once set stay set.
Assign_KeepTokenExpired(cur, newState) ==
    [newState EXCEPT !.TokenExpired = cur.TokenExpired \/ newState.TokenExpired]

\* qc.state = newState, under qc.mu: the snapshot held after the assignment.
Assign(cur, newState) == newState

(***************************************************************************)
(* The state machine.                                                      *)
(*                                                                         *)
(* Goroutines: pollLoop and eventLoop call Fetch, updatedTicker calls      *)
(* State.  A Fetch is the steps                                            *)
(*   idle -GetTokenLock-> getToken -GetTokenBody-> http (or muLock)        *)
(*        -Do...-> muLock -MuLock-> install -Install-> idle                *)
(* and a State the steps                                                   *)
(*   idle -StateRLock-> copyA -StateCopyA-> copyB -StateCopyB-> idle.      *)
(***************************************************************************)
VARIABLES
    now,          \* the wall clock, in minutes
    source,       \* the credentials file, written by the login tool
    oc,           \* OAuthCredentials: accessToken, expiresAt
    credsMu,      \* oc.mu: the goroutine holding it, or "none"
    muWriter,     \* qc.mu: the goroutine holding the write lock, or "none"
    muReaders,    \* qc.mu: the goroutines holding a read lock
    state,        \* qc.state
    pc,           \* where each goroutine is
    loc,          \* the locals of each goroutine's call in progress
    lastPublish,  \* history: the last install of a snapshot by a Fetch
    lastGet,      \* history: the last direct call of GetAccessToken
    probe,        \* the arguments and result of a pure function under check
    quit,         \* a.quit: whether the channel is closed
    at,           \* where pollLoop and eventLoop are in their loops
    uiMu,         \* a.uiMu: the goroutine holding it, or "none"
    ui            \* the tray: what its icon, tooltip and menu items show

vars == <<now, source, oc, credsMu, muWriter, muReaders, state, pc, loc,
          lastPublish, lastGet, probe, quit, at, uiMu, ui>>

\* The variables of the App's loops, which the QuotaClient does not touch.
app == <<quit, at, uiMu, ui>>

\* The variables of the tray, which only updateUI and updatedTicker touch.
tray == <<uiMu, ui>>

Fetchers == {"poll", "event"}
Readers == {"ticker"}
Procs == Fetchers \cup Readers

\* Instants, in milliseconds, that a credentials file may state as expiry.
StaleMs == UnixMilli(0) + MarginMs
SoonMs == UnixMilli(1) + MarginMs
FarMs == UnixMilli(MaxClock) + MarginMs + 1

\* Locals of a call: the token and the error GetAccessToken gave a Fetch,
\* whether it read the file, what the Fetch is about to install (a snapshot
\* assigned, or a message given to setError), the response it decoded, the
\* buckets it called computeProjection for (history), the value it will
\* return and
\* how it ended; the copy a State call is making, and (history) the
\* snapshot qc.state held when it took its lock, whether a Fetch with a
\* different snapshot was waiting for the lock while it copied, and
\* whether, when it took its lock, a Fetch was waiting on the network (io)
\* or a goroutine held the credential lock (cr), both kept until it returns.
\* A loop waiting at its select, as onReady's go statements leave it:
\* where it is, and (history) how many Fetch calls it has begun after quit
\* was closed (counted up to MaxLate), whether quit was closed while its
\* Fetch was in flight, and whether another Fetch has installed its
\* snapshot since the loop's own Fetch began.
MaxLate == 2

AtSelect == [pos |-> "select", late |-> 0, cut |-> FALSE, crossed |-> FALSE]

NoLocals ==
    [tok |-> "", err |-> Nil, read |-> FALSE, how |-> "none",
     data |-> Response(Nil, Nil, Nil), snap |-> EmptyState, calls |-> {},
     msg |-> <<>>, ret |-> FALSE, kind |-> "none",
     loads |-> 0, reqs |-> 0, writes |-> 0,
     copy |-> EmptyState, seen |-> EmptyState, raced |-> FALSE,
     io |-> FALSE, cr |-> FALSE, returned |-> FALSE]

\* The last install: how that Fetch ended, the error GetAccessToken gave
\* it, the response it decoded, the snapshot it wrote, the buckets it
\* called computeProjection for
\* and the value it returned; and, of the
\* snapshot it replaced, whether that one held quota fields, had
\* TokenExpired set, and was stamped later.
NoPublish ==
    [kind |-> "none", err |-> Nil, data |-> Response(Nil, Nil, Nil),
     snap |-> EmptyState, calls |-> {}, ret |-> FALSE,
     loads |-> 0, reqs |-> 0, writes |-> 0,
     overHadQuota |-> FALSE, overTokenExpired |-> FALSE, overNewer |-> FALSE]

NoGet ==
    [called |-> FALSE, pre |-> Creds("", 0), file |-> MissingFile,
     nowMs |-> 0, post |-> Creds("", 0), tok |-> "", read |-> FALSE,
     err |-> Nil]

NoProbe == [fn |-> "none", a |-> 0, b |-> 0, done |-> FALSE, out |-> FALSE]

\* The tray after updateUI has rendered the snapshot s (as built by
\* onReady, it shows what the empty snapshot renders to): the snapshot its
\* icon, its tooltip and its three quota lines were rendered from, and the
\* LastUpdate the title of the "Updated" item was formatted from.  The
\* history field calm tells whether no loop has left its select since the
\* last tick of updatedTicker.
Rendered(s) ==
    [icon |-> s, tooltip |-> s, lines |-> s, title |-> s.LastUpdate,
     calm |-> FALSE]

\* Whether a snapshot carries any quota field.
HasQuota(s) ==
    \/ ~IsNil(s.FiveHour) \/ ~IsNil(s.FiveHourResets)
    \/ ~IsNil(s.FiveHourProjected) \/ ~IsNil(s.FiveHourSaturation)
    \/ ~IsNil(s.SevenDay) \/ ~IsNil(s.SevenDayResets)
    \/ ~IsNil(s.SevenDaySonnet) \/ ~IsNil(s.SevenDaySonnetResets)

\* NewOAuthCredentials and NewApp: the store loaded from a file that load
\* accepts, the zero snapshot, every goroutine idle.
InitWith(files) ==
    /\ now = 0
    /\ source \in {f \in files : IsNil(load(Creds("", 0), f).err)}
    /\ oc = load(Creds("", 0), source).oc
    /\ credsMu = "none"
    /\ muWriter = "none"
    /\ muReaders = {}
    /\ state = EmptyState
    /\ pc = [p \in Procs |-> "idle"]
    /\ loc = [p \in Procs |-> NoLocals]
    /\ lastPublish = NoPublish
    /\ lastGet = NoGet
    /\ quit = FALSE
    /\ at = [g \in Fetchers |-> AtSelect]
    /\ uiMu = "none"
    /\ ui = Rendered(EmptyState)

\* Time passes.
Tick ==
    /\ now < MaxClock
    /\ now' = now + 1
    /\ UNCHANGED <<source, oc, credsMu, muWriter, muReaders, state, pc, loc,
                   lastPublish, lastGet, probe>>

\* The login tool (or the user) rewrites or removes the credentials file.
SourceWrite(f) ==
    /\ f # source
    /\ source' = f
    /\ UNCHANGED <<now, oc, credsMu, muWriter, muReaders, state, pc, loc,
                   lastPublish, lastGet, probe>>

\* Fetch calls GetAccessToken, which takes oc.mu.
GetTokenLock(g) ==
    /\ pc[g] = "idle"
    /\ credsMu = "none"
    /\ credsMu' = g
    /\ pc' = [pc EXCEPT ![g] = "getToken"]
    /\ loc' = [loc EXCEPT ![g] = NoLocals]
    /\ UNCHANGED <<now, source, oc, muWriter, muReaders, state, lastPublish,
                   lastGet, probe>>

\* A Fetch that takes qc.mu before it sends the request.
GetTokenBody_LockFirst(g) ==
    /\ pc[g] = "getToken"
    /\ credsMu = g
    /\ muWriter = "none"
    /\ muReaders = {}
    /\ LET r == GetAccessToken(oc, source, UnixMilli(now))
       IN  /\ oc' = r.oc
           /\ IF ~IsNil(r.err)
              THEN /\ loc' = [loc EXCEPT ![g].read = r.read,
                                         ![g].loads = loc[g].loads
                                             + (IF r.read THEN 1 ELSE 0),
                                         ![g].err = r.err,
                                         ![g].ret = FALSE,
                                         ![g].how = "assign",
                                         ![g].snap = TokenErrorState(Deref(r.err)),
                                         ![g].kind = "token"]
                   /\ pc' = [pc EXCEPT ![g] = "muLock"]
                   /\ muWriter' = muWriter
              ELSE /\ loc' = [loc EXCEPT ![g].read = r.read,
                                         ![g].loads = loc[g].loads
                                             + (IF r.read THEN 1 ELSE 0),
                                         ![g].tok = r.tok]
                   /\ pc' = [pc EXCEPT ![g] = "http"]
                   /\ muWriter' = g
    /\ credsMu' = "none"
    /\ UNCHANGED <<now, source, muReaders, state, lastPublish, lastGet,
                   probe>>

\* GetAccessToken's body and its deferred Unlock; on an error Fetch builds
\* the error snapshot it will assign, else it sends the request.
GetTokenBody(g) ==
    /\ pc[g] = "getToken"
    /\ credsMu = g
    /\ LET r == GetAccessToken(oc, source, UnixMilli(now))
       IN  /\ oc' = r.oc
           /\ IF ~IsNil(r.err)
              THEN /\ loc' = [loc EXCEPT ![g].read = r.read,
                                         ![g].loads = loc[g].loads
                                             + (IF r.read THEN 1 ELSE 0),
                                         ![g].err = r.err,
                                         ![g].ret = FALSE,
                                         ![g].how = "assign",
                                         ![g].snap = TokenErrorState(Deref(r.err)),
                                         ![g].kind = "token"]
                   /\ pc' = [pc EXCEPT ![g] = "muLock"]
              ELSE /\ loc' = [loc EXCEPT ![g].read = r.read,
                                         ![g].loads = loc[g].loads
                                             + (IF r.read THEN 1 ELSE 0),
                                         ![g].tok = r.tok]
                   /\ pc' = [pc EXCEPT ![g] = "http"]
    /\ credsMu' = "none"
    /\ UNCHANGED <<now, source, muWriter, muReaders, state, lastPublish,
                   lastGet, probe>>

\* qc.client.Do fails: Fetch will call setError with the truncated text.
\* (http.NewRequest before it is given the fixed method and usageURL and
\* does not fail.)
DoTransportError(g, text) ==
    /\ pc[g] = "http"
    /\ loc' = [loc EXCEPT ![g].reqs = loc[g].reqs + 1,
                          ![g].how = "setError",
                          ![g].msg = Truncated[text],
                          ![g].ret = FALSE,
                          ![g].kind = "transport"]
    /\ pc' = [pc EXCEPT ![g] = "muLock"]
    /\ UNCHANGED <<now, source, oc, credsMu, muWriter, muReaders, state,
                   lastPublish, lastGet, probe>>

\* A Fetch that sends the request once more after a first status other
\* than 200.
DoStatus_Retry(g, code) ==
    /\ pc[g] = "http"
    /\ code # 200
    /\ IF loc[g].reqs = 0
       THEN /\ loc' = [loc EXCEPT ![g].reqs = loc[g].reqs + 1]
            /\ pc' = pc
       ELSE /\ loc' = [loc EXCEPT ![g].reqs = loc[g].reqs + 1,
                                  ![g].how = "setError",
                                  ![g].msg = StatusMessage(code),
                                  ![g].ret = FALSE,
                                  ![g].kind = "status"]
            /\ pc' = [pc EXCEPT ![g] = "muLock"]
    /\ UNCHANGED <<now, source, oc, credsMu, muWriter, muReaders, state,
                   lastPublish, lastGet, probe>>

\* A response whose status is not 200.
DoStatus(g, code) ==
    /\ pc[g] = "http"
    /\ code # 200
    /\ loc' = [loc EXCEPT ![g].reqs = loc[g].reqs + 1,
                          ![g].how = "setError",
                          ![g].msg = StatusMessage(code),
                          ![g].ret = FALSE,
                          ![g].kind = "status"]
    /\ pc' = [pc EXCEPT ![g] = "muLock"]
    /\ UNCHANGED <<now, source, oc, credsMu, muWriter, muReaders, state,
                   lastPublish, lastGet, probe>>

\* Fetch going on after a body that does not decode, as if it were empty.
DoBadBody_Ignored(g, text) ==
    /\ pc[g] = "http"
    /\ loc' = [loc EXCEPT ![g].reqs = loc[g].reqs + 1,
                          ![g].how = "assign",
                          ![g].snap =
                              NewState(Response(Nil, Nil, Nil), now, "amd64"),
                          ![g].ret = TRUE,
                          ![g].kind = "decode"]
    /\ pc' = [pc EXCEPT ![g] = "muLock"]
    /\ UNCHANGED <<now, source, oc, credsMu, muWriter, muReaders, state,
                   lastPublish, lastGet, probe>>

\* A 200 response whose body json.Decode rejects with this text.
DoBadBody(g, text) ==
    /\ pc[g] = "http"
    /\ loc' = [loc EXCEPT ![g].reqs = loc[g].reqs + 1,
                          ![g].how = "setError",
                          ![g].msg = Truncated[text],
                          ![g].ret = FALSE,
                          ![g].kind = "decode"]
    /\ pc' = [pc EXCEPT ![g] = "muLock"]
    /\ UNCHANGED <<now, source, oc, credsMu, muWriter, muReaders, state,
                   lastPublish, lastGet, probe>>

\* A Fetch that stamps its snapshot with a time later than the clock's.
DoOK_StampAhead(g, data) ==
    /\ pc[g] = "http"
    /\ \E goarch \in GoArchs :
           loc' = [loc EXCEPT ![g].reqs = loc[g].reqs + 1,
                              ![g].how = "assign",
                              ![g].data = data,
                              ![g].snap = NewState(data, now + 1, goarch),
                              ![g].calls = ProjectionCalls(data),
                              ![g].ret = TRUE,
                              ![g].kind = "ok"]
    /\ pc' = [pc EXCEPT ![g] = "muLock"]
    /\ UNCHANGED <<now, source, oc, credsMu, muWriter, muReaders, state,
                   lastPublish, lastGet, probe>>

\* A 200 response decoded to data: parse, stamp LastUpdate, project.
DoOK(g, data) ==
    /\ pc[g] = "http"
    /\ \E goarch \in GoArchs :
           loc' = [loc EXCEPT ![g].reqs = loc[g].reqs + 1,
                              ![g].how = "assign",
                              ![g].data = data,
                              ![g].snap = NewState(data, now, goarch),
                              ![g].calls = ProjectionCalls(data),
                              ![g].ret = TRUE,
                              ![g].kind = "ok"]
    /\ pc' = [pc EXCEPT ![g] = "muLock"]
    /\ UNCHANGED <<now, source, oc, credsMu, muWriter, muReaders, state,
                   lastPublish, lastGet, probe>>

\* A Fetch that takes the credential lock again and keeps it while it
\* takes qc.mu.
MuLock_HoldingCreds(g) ==
    /\ pc[g] = "muLock"
    /\ muWriter = "none"
    /\ muReaders = {}
    /\ credsMu = "none"
    /\ credsMu' = g
    /\ muWriter' = g
    /\ pc' = [pc EXCEPT ![g] = "install"]
    /\ UNCHANGED <<now, source, oc, muReaders, state, loc, lastPublish,
                   lastGet, probe>>

\* qc.mu.Lock()
MuLock(g) ==
    /\ pc[g] = "muLock"
    /\ muWriter = "none"
    /\ muReaders = {}
    /\ muWriter' = g
    /\ pc' = [pc EXCEPT ![g] = "install"]
    /\ UNCHANGED <<now, source, oc, credsMu, muReaders, state, loc,
                   lastPublish, lastGet, probe>>

\* The snapshot a Fetch means to write: the one it built, or the
\* QuotaState{Error: msg} of setError.
Written(l) ==
    IF l.how = "setError" THEN [EmptyState EXCEPT !.Error = l.msg]
    ELSE l.snap

\* The snapshot a Fetch installs over cur.
Installed(cur, l) ==
    IF l.how = "setError" THEN setError(cur, l.msg) ELSE Assign(cur, l.snap)

\* The assignment to qc.state, qc.mu.Unlock() and Fetch's return.
Install(g) ==
    /\ pc[g] = "install"
    /\ muWriter = g
    /\ state' = Installed(state, loc[g])
    /\ muWriter' = "none"
    /\ lastPublish' =
           [kind |-> loc[g].kind,
            err |-> loc[g].err,
            data |-> loc[g].data,
            snap |-> Written(loc[g]),
            calls |-> loc[g].calls,
            ret |-> loc[g].ret,
            loads |-> loc[g].loads,
            reqs |-> loc[g].reqs,
            writes |-> loc[g].writes + 1,
            overHadQuota |-> HasQuota(state),
            overTokenExpired |-> state.TokenExpired,
            overNewer |-> Newer(state, Written(loc[g]))]
    /\ pc' = [pc EXCEPT ![g] = "idle"]
    /\ loc' = [loc EXCEPT ![g] = NoLocals]
    /\ UNCHANGED <<now, source, oc, credsMu, muReaders, lastGet, probe>>

\* State without its RLock: the copy starts, but qc.mu is not held.
StateRLock_NoLock(r) ==
    /\ pc[r] = "idle"
    /\ pc' = [pc EXCEPT ![r] = "copyA"]
    /\ loc' = [loc EXCEPT ![r] = [NoLocals EXCEPT !.seen = state]]
    /\ UNCHANGED <<now, source, oc, credsMu, muWriter, muReaders, state,
                   lastPublish, lastGet, probe>>

\* State that takes its read lock only when the credential lock is free.
StateRLock_AfterCreds(r) ==
    /\ pc[r] = "idle"
    /\ muWriter = "none"
    /\ credsMu = "none"
    /\ muReaders' = muReaders \cup {r}
    /\ pc' = [pc EXCEPT ![r] = "copyA"]
    /\ loc' = [loc EXCEPT ![r] = [NoLocals EXCEPT !.seen = state]]
    /\ UNCHANGED <<now, source, oc, credsMu, muWriter, state, lastPublish,
                   lastGet, probe>>

\* State: qc.mu.RLock().  (A Lock that waits for readers holds back new
\* readers in Go; the model lets them in, which only adds behaviours.)
StateRLock(r) ==
    /\ pc[r] = "idle"
    /\ muWriter = "none"
    /\ muReaders' = muReaders \cup {r}
    /\ pc' = [pc EXCEPT ![r] = "copyA"]
    /\ loc' = [loc EXCEPT ![r] =
                 [NoLocals EXCEPT !.seen = state,
                                  !.io = \E g \in Fetchers : pc[g] = "http",
                                  !.cr = credsMu # "none"]]
    /\ UNCHANGED <<now, source, oc, credsMu, muWriter, state, lastPublish,
                   lastGet, probe>>

\* Whether a Fetch holding a snapshot other than qc.state waits for qc.mu.
FetchWaits ==
    \E g \in Fetchers : pc[g] = "muLock" /\ Written(loc[g]) # state

\* State: the copy of qc.state into the result, the bucket fields first.
StateCopyA(r) ==
    /\ pc[r] = "copyA"
    /\ loc' = [loc EXCEPT ![r].raced = @ \/ FetchWaits,
                          ![r].copy =
                 [@ EXCEPT !.FiveHour = state.FiveHour,
                           !.FiveHourResets = state.FiveHourResets,
                           !.FiveHourProjected = state.FiveHourProjected,
                           !.FiveHourSaturation = state.FiveHourSaturation,
                           !.SevenDay = state.SevenDay,
                           !.SevenDayResets = state.SevenDayResets,
                           !.SevenDaySonnet = state.SevenDaySonnet,
                           !.SevenDaySonnetResets = state.SevenDaySonnetResets]]
    /\ pc' = [pc EXCEPT ![r] = "copyB"]
    /\ UNCHANGED <<now, source, oc, credsMu, muWriter, muReaders, state,
                   lastPublish, lastGet, probe>>

\* A State that takes the Error it reports off the stored snapshot.
StateCopyB_Consuming(r) ==
    /\ pc[r] = "copyB"
    /\ loc' = [loc EXCEPT ![r].raced = @ \/ FetchWaits,
                          ![r].copy =
                 [@ EXCEPT !.LastUpdate = state.LastUpdate,
                           !.Error = state.Error,
                           !.TokenExpired = state.TokenExpired],
                          ![r].io = FALSE,
                          ![r].cr = FALSE,
                          ![r].returned = TRUE]
    /\ state' = [state EXCEPT !.Error = <<>>]
    /\ muReaders' = muReaders \ {r}
    /\ pc' = [pc EXCEPT ![r] = "idle"]
    /\ UNCHANGED <<now, source, oc, credsMu, muWriter, lastPublish, lastGet,
                   probe>>

\* State: the rest of the copy, the deferred RUnlock and the return.
StateCopyB(r) ==
    /\ pc[r] = "copyB"
    /\ loc' = [loc EXCEPT ![r].raced = @ \/ FetchWaits,
                          ![r].copy =
                 [@ EXCEPT !.LastUpdate = state.LastUpdate,
                           !.Error = state.Error,
                           !.TokenExpired = state.TokenExpired],
                          ![r].io = FALSE,
                          ![r].cr = FALSE,
                          ![r].returned = TRUE]
    /\ muReaders' = muReaders \ {r}
    /\ pc' = [pc EXCEPT ![r] = "idle"]
    /\ UNCHANGED <<now, source, oc, credsMu, muWriter, state, lastPublish,
                   lastGet, probe>>

\* A direct call of GetAccessToken, from Lock to the deferred Unlock.
CallGetAccessToken ==
    /\ credsMu = "none"
    /\ LET r == GetAccessToken(oc, source, UnixMilli(now))
       IN  /\ oc' = r.oc
           /\ lastGet' = [called |-> TRUE, pre |-> oc, file |-> source,
                          nowMs |-> UnixMilli(now), post |-> r.oc,
                          tok |-> r.tok, read |-> r.read, err |-> r.err]
    /\ UNCHANGED <<now, source, credsMu, muWriter, muReaders, state, pc, loc,
                   lastPublish, probe>>

(***************************************************************************)
(* Inputs.                                                                 *)
(***************************************************************************)
\* Credentials files: unreadable, not JSON, without a token, and tokens
\* with an expiry that is unknown (0), past, about to pass, far, and the
\* least int64.
Files ==
    {MissingFile, GarbageFile, JsonFile("", 0),
     JsonFile("tokA", 0), JsonFile("tokA", SoonMs),
     JsonFile("tokB", StaleMs), JsonFile("tokB", FarMs),
     JsonFile("tokB", MinInt64)}

FewFiles == {MissingFile, JsonFile("tokA", SoonMs)}

SomeFiles == FewFiles \cup {JsonFile("tokB", FarMs)}

\* Decoded 200 bodies the endpoint may send at time t.
Responses(t) ==
    {Response(Nil, Nil, Nil),
     Response(Some(Bucket(Some(50), Some(Rfc3339(t + 60)))),
              Some(Bucket(Some(10), Nil)), Nil),
     Response(Some(Bucket(Some(80), Some(Rfc3339(t + 240)))),
              Some(Bucket(Some(30), Some(Rfc3339(t + 1000)))),
              Some(Bucket(Some(5), Some(Rfc3339(t + 1000))))),
     Response(Some(Bucket(Some(100), Some(Rfc3339(t + 240)))), Nil, Nil),
     Response(Some(Bucket(Some(50), Some(NotATime))),
              Some(Bucket(Some(20), Some(Rfc3339(t + 1000)))), Nil),
     Response(Some(Bucket(Nil, Some(Rfc3339(t + 60)))), Nil, Nil),
     Response(Some(Bucket(Some(0), Some(Rfc3339(t + 60)))), Nil, Nil),
     Response(Some(Bucket(Some(80), Some(Rfc3339(t + 400)))), Nil, Nil),
     Response(Some(Bucket(Some(80), Some(Rfc3339(t - 1)))), Nil, Nil),
     Response(Some(Bucket(Some(90), Some(Rfc3339(t + 30)))), Nil, Nil),
     Response(Some(Bucket(Some(91), Some(Rfc3339(t + 30)))), Nil, Nil),
     Response(Some(Bucket(Some(99), Some(Rfc3339(t + 299)))), Nil, Nil),
     Response(Some(Bucket(Some(80), Some(Rfc3339(t + 240)))),
              Some(Bucket(Some(30), Some(NotATime))),
              Some(Bucket(Some(5), Some(Rfc3339(t + 1000)))))}

FewResponses(t) ==
    {Response(Some(Bucket(Some(80), Some(Rfc3339(t + 240)))),
              Some(Bucket(Some(30), Some(Rfc3339(t + 1000)))), Nil)}

StatusCodes == {401, 403, 500}

(***************************************************************************)
(* The loops of the App.  Each loop is at its select, has taken the case   *)
(* that calls Fetch ("call"), is in Fetch ("fetch"), is at updateUI        *)
(* ("ui"), or has returned.  A select that waits is settled by the first   *)
(* of its channels to become ready: the timer of time.After and the        *)
(* unbuffered ClickedCh channels are not ready when the select is reached, *)
(* so a select reached or still waiting when quit is closed takes the quit *)
(* case.                                                                   *)
(***************************************************************************)
\* close(a.quit), for every loop: a Fetch in flight is marked as cut.
Closed(a) ==
    [g \in Fetchers |->
        IF a[g].pos = "fetch" THEN [a[g] EXCEPT !.cut = TRUE] ELSE a[g]]

\* Shutdown, called on a signal, or onExit when the tray exits: quit is
\* closed unless it is already.
Shutdown ==
    /\ ~quit
    /\ quit' = TRUE
    /\ at' = Closed(at)
    /\ UNCHANGED <<now, source, oc, credsMu, muWriter, muReaders, state, pc,
                   loc, lastPublish, lastGet, probe>>

\* A loop whose select never takes the quit case once its other channel is
\* ready.
SelectQuit_Never(g) ==
    /\ at[g].pos = "select"
    /\ at' = [at EXCEPT ![g].pos = "call"]
    /\ UNCHANGED <<now, source, oc, credsMu, muWriter, muReaders, state, pc,
                   loc, lastPublish, lastGet, probe, quit>>

\* case <-a.quit: return
SelectQuit(g) ==
    /\ at[g].pos = "select"
    /\ quit
    /\ at' = [at EXCEPT ![g].pos = "returned"]
    /\ UNCHANGED <<now, source, oc, credsMu, muWriter, muReaders, state, pc,
                   loc, lastPublish, lastGet, probe, quit>>

\* pollLoop: case <-time.After(interval), in either select
SelectTimer ==
    /\ at["poll"].pos = "select"
    /\ ~quit
    /\ at' = [at EXCEPT !["poll"].pos = "call"]
    /\ UNCHANGED <<now, source, oc, credsMu, muWriter, muReaders, state, pc,
                   loc, lastPublish, lastGet, probe, quit>>

\* eventLoop: case <-a.mRefresh.ClickedCh
SelectRefresh ==
    /\ at["event"].pos = "select"
    /\ ~quit
    /\ at' = [at EXCEPT !["event"].pos = "call"]
    /\ UNCHANGED <<now, source, oc, credsMu, muWriter, muReaders, state, pc,
                   loc, lastPublish, lastGet, probe, quit>>

\* eventLoop: case <-a.mQuit.ClickedCh: a.Shutdown(); return
SelectQuitItem ==
    /\ at["event"].pos = "select"
    /\ ~quit
    /\ quit' = TRUE
    /\ at' = [Closed(at) EXCEPT !["event"].pos = "returned"]
    /\ UNCHANGED <<now, source, oc, credsMu, muWriter, muReaders, state, pc,
                   loc, lastPublish, lastGet, probe>>

\* The loop calls a.quota.Fetch().
CallFetch(g) ==
    /\ at[g].pos = "call"
    /\ at' = [at EXCEPT ![g].pos = "fetch",
                        ![g].late = IF quit /\ at[g].late < MaxLate
                                    THEN at[g].late + 1
                                    ELSE at[g].late]
    /\ UNCHANGED <<now, source, oc, credsMu, muWriter, muReaders, state, pc,
                   loc, lastPublish, lastGet, probe, quit>>

\* The steps of the loop's Fetch up to its write lock; the request fails
\* or is answered with a body that decodes.
FetchRuns(g) ==
    /\ at[g].pos = "fetch"
    /\ \/ GetTokenLock(g)
       \/ GetTokenBody(g)
       \/ DoTransportError(g, DialErrorText)
       \/ \E d \in FewResponses(now) : DoOK(g, d)
       \/ MuLock(g)
    /\ UNCHANGED app

\* The loop's Fetch installs its snapshot and returns.
FetchReturns(g) ==
    /\ at[g].pos = "fetch"
    /\ Install(g)
    /\ at' = [at EXCEPT ![g].pos = "ui"]
    /\ UNCHANGED quit

\* a.updateUI(): its State() needs qc.mu free of a writer; the loop goes
\* back to its select.
UpdateUI(g) ==
    /\ at[g].pos = "ui"
    /\ muWriter = "none"
    /\ at' = [at EXCEPT ![g].pos = "select"]
    /\ UNCHANGED <<now, source, oc, credsMu, muWriter, muReaders, state, pc,
                   loc, lastPublish, lastGet, probe, quit>>

(***************************************************************************)
(* The closing of a.quit, step by step.  Shutdown and onExit are each a    *)
(* select that looks whether quit is closed and, in its default case, a    *)
(* close; the goroutine that calls them may be suspended between the two.  *)
(* Shutdown is called by the goroutine that waits for a signal and by      *)
(* eventLoop on a click on Quit, onExit by the tray once systray.Quit has  *)
(* been called.  A close of a closed channel panics.                       *)
(***************************************************************************)
Closers == {"signal", "event", "tray"}

\* The goroutine that waits on sigCh, the tray before systray.Quit.
AtWait == [pos |-> "wait", late |-> 0, cut |-> FALSE, crossed |-> FALSE]

\* <-sigCh: the signal goroutine calls app.Shutdown().
SignalReceived ==
    /\ at["signal"].pos = "wait"
    /\ at' = [at EXCEPT !["signal"].pos = "check"]
    /\ UNCHANGED <<now, source, oc, credsMu, muWriter, muReaders, state, pc,
                   loc, lastPublish, lastGet, probe, quit>>

\* eventLoop: case <-a.mQuit.ClickedCh, up to its call of a.Shutdown().
QuitClicked ==
    /\ at["event"].pos = "select"
    /\ ~quit
    /\ at' = [at EXCEPT !["event"].pos = "check"]
    /\ UNCHANGED <<now, source, oc, credsMu, muWriter, muReaders, state, pc,
                   loc, lastPublish, lastGet, probe, quit>>

\* The select of Shutdown and of onExit: case <-a.quit, or default.
CheckQuit(p) ==
    /\ at[p].pos = "check"
    /\ at' = [at EXCEPT ![p].pos = IF quit THEN "closed" ELSE "close"]
    /\ UNCHANGED <<now, source, oc, credsMu, muWriter, muReaders, state, pc,
                   loc, lastPublish, lastGet, probe, quit>>

\* close(a.quit) in the default case.
CloseQuit(p) ==
    /\ at[p].pos = "close"
    /\ quit' = TRUE
    /\ at' = [at EXCEPT ![p].pos = IF quit THEN "panic" ELSE "closed"]
    /\ UNCHANGED <<now, source, oc, credsMu, muWriter, muReaders, state, pc,
                   loc, lastPublish, lastGet, probe>>

\* The end of Shutdown: systray.Quit(), on which the tray calls onExit if
\* it has not yet; the end of onExit.
AfterClose(p) ==
    /\ at[p].pos = "closed"
    /\ at' = [q \in DOMAIN at |->
                 IF q = p THEN [at[q] EXCEPT !.pos = "returned"]
                 ELSE IF q = "tray" /\ p # "tray" /\ at[q].pos = "wait"
                 THEN [at[q] EXCEPT !.pos = "check"]
                 ELSE at[q]]
    /\ UNCHANGED <<now, source, oc, credsMu, muWriter, muReaders, state, pc,
                   loc, lastPublish, lastGet, probe, quit>>

(***************************************************************************)
(* Fetch calls that overlap, with the history of which call was crossed by *)
(* the install of another.                                                 *)
(***************************************************************************)
\* Fetch is called and takes the credential lock.
FetchBegins(g) ==
    /\ GetTokenLock(g)
    /\ at' = [at EXCEPT ![g].crossed = FALSE]
    /\ UNCHANGED quit

\* Fetch installs its snapshot: the calls in progress are crossed by it.
FetchInstalls(g) ==
    /\ Install(g)
    /\ at' = [h \in DOMAIN at |->
                 IF h # g /\ pc[h] # "idle"
                 THEN [at[h] EXCEPT !.crossed = TRUE] ELSE at[h]]
    /\ UNCHANGED quit

(***************************************************************************)
(* updateUI and updatedTicker.  updateUI holds a.uiMu from its first line  *)
(* to its return, reads State() and sets the icon, the tooltip, the three  *)
(* quota lines and the title of the "Updated" item from that one copy;     *)
(* iconToBytes encodes to memory an image whose size the configuration     *)
(* keeps positive, so the icon is set.  updatedTicker, on each tick, reads *)
(* State() and sets the title of the "Updated" item, without a.uiMu.       *)
(***************************************************************************)
\* An updateUI that does not wait for a.uiMu.
UiLock_NoMutex(g) ==
    /\ at[g].pos = "ui"
    /\ uiMu' = g
    /\ at' = [at EXCEPT ![g].pos = "uiState"]
    /\ UNCHANGED <<now, source, oc, credsMu, muWriter, muReaders, state, pc,
                   loc, lastPublish, lastGet, probe, quit, ui>>

\* updateUI: a.uiMu.Lock()
UiLock(g) ==
    /\ at[g].pos = "ui"
    /\ uiMu = "none"
    /\ uiMu' = g
    /\ at' = [at EXCEPT ![g].pos = "uiState"]
    /\ UNCHANGED <<now, source, oc, credsMu, muWriter, muReaders, state, pc,
                   loc, lastPublish, lastGet, probe, quit, ui>>

\* State(), from RLock to the deferred RUnlock, as one step of its caller
\* p: the read lock keeps every install out from the first field copied
\* to the last.
StateCall(p) ==
    /\ muWriter = "none"
    /\ loc' = [loc EXCEPT ![p].copy = state]
    /\ UNCHANGED <<now, source, oc, credsMu, muWriter, muReaders, state, pc,
                   lastPublish, lastGet, probe>>

\* updateUI: state := a.quota.State()
UiState(g) ==
    /\ at[g].pos = "uiState"
    /\ StateCall(g)
    /\ at' = [at EXCEPT ![g].pos = "render"]
    /\ UNCHANGED <<quit, uiMu, ui>>

\* updateUI: SetIcon, SetTooltip and the SetTitle of the three quota lines.
UiRender(g) ==
    /\ at[g].pos = "render"
    /\ ui' = [ui EXCEPT !.icon = loc[g].copy,
                        !.tooltip = loc[g].copy,
                        !.lines = loc[g].copy]
    /\ at' = [at EXCEPT ![g].pos = "title"]
    /\ UNCHANGED <<now, source, oc, credsMu, muWriter, muReaders, state, pc,
                   loc, lastPublish, lastGet, probe, quit, uiMu>>

\* updateUI: a.mUpdated.SetTitle, the deferred a.uiMu.Unlock() and the
\* return to the loop's select.
UiTitle(g) ==
    /\ at[g].pos = "title"
    /\ ui' = [ui EXCEPT !.title = loc[g].copy.LastUpdate]
    /\ uiMu' = "none"
    /\ loc' = [loc EXCEPT ![g] = NoLocals]
    /\ at' = [at EXCEPT ![g].pos = "select"]
    /\ UNCHANGED <<now, source, oc, credsMu, muWriter, muReaders, state, pc,
                   lastPublish, lastGet, probe, quit>>

\* No Fetch()+updateUI() pair is in progress: both loops are at their
\* selects.
Quiescent == \A g \in Fetchers : at[g].pos = "select"

\* A loop's timer fires, or Refresh is clicked: the loop leaves its select.
LoopWakes ==
    /\ SelectTimer \/ SelectRefresh
    /\ ui' = [ui EXCEPT !.calm = FALSE]
    /\ UNCHANGED uiMu

\* updatedTicker: case <-ticker.C
TickerFires ==
    /\ at["ticker"].pos = "select"
    /\ at' = [at EXCEPT !["ticker"].pos = "uiState"]
    /\ ui' = [ui EXCEPT !.calm = Quiescent]
    /\ UNCHANGED <<now, source, oc, credsMu, muWriter, muReaders, state, pc,
                   loc, lastPublish, lastGet, probe, quit, uiMu>>

\* updatedTicker: state := a.quota.State()
TickerReads ==
    /\ at["ticker"].pos = "uiState"
    /\ StateCall("ticker")
    /\ at' = [at EXCEPT !["ticker"].pos = "title"]
    /\ UNCHANGED <<quit, uiMu, ui>>

\* updatedTicker: a.mUpdated.SetTitle(formatUpdatedAgo(state.LastUpdate))
TickerSetTitle ==
    /\ at["ticker"].pos = "title"
    /\ ui' = [ui EXCEPT !.title = loc["ticker"].copy.LastUpdate]
    /\ loc' = [loc EXCEPT !["ticker"] = NoLocals]
    /\ at' = [at EXCEPT !["ticker"].pos = "select"]
    /\ UNCHANGED <<now, source, oc, credsMu, muWriter, muReaders, state, pc,
                   lastPublish, lastGet, probe, quit, uiMu>>

(***************************************************************************)
(* Specifications.                                                         *)
(***************************************************************************)
\* The goroutines of the App, concurrently, over a few inputs.
Init == InitWith(FewFiles) /\ probe = NoProbe

Next ==
    \/ Tick /\ UNCHANGED app
    \/ \E f \in FewFiles : SourceWrite(f) /\ UNCHANGED app
    \/ \E g \in Fetchers : GetTokenLock(g) /\ UNCHANGED app
    \/ \E g \in Fetchers : GetTokenBody(g) /\ UNCHANGED app
    \/ \E g \in Fetchers : DoTransportError(g, DialErrorText) /\ UNCHANGED app
    \/ \E g \in Fetchers : DoStatus(g, 500) /\ UNCHANGED app
    \/ \E g \in Fetchers : DoBadBody(g, InvalidCharText) /\ UNCHANGED app
    \/ \E g \in Fetchers : \E d \in FewResponses(now) : DoOK(g, d) /\ UNCHANGED app
    \/ \E g \in Fetchers : MuLock(g) /\ UNCHANGED app
    \/ \E g \in Fetchers : Install(g) /\ UNCHANGED app
    \/ \E r \in Readers : StateRLock(r) /\ UNCHANGED app
    \/ \E r \in Readers : StateCopyA(r) /\ UNCHANGED app
    \/ \E r \in Readers : StateCopyB(r) /\ UNCHANGED app

Spec == Init /\ [][Next]_vars

\* One Fetch at a time, over every answer of the endpoint.
InitFetch == InitWith(SomeFiles) /\ probe = NoProbe

NextFetch ==
    \/ Tick /\ UNCHANGED app
    \/ \E f \in SomeFiles : SourceWrite(f) /\ UNCHANGED app
    \/ GetTokenLock("poll") /\ UNCHANGED app
    \/ GetTokenBody("poll") /\ UNCHANGED app
    \/ \E t \in TransportErrors : DoTransportError("poll", t) /\ UNCHANGED app
    \/ \E c \in StatusCodes : DoStatus("poll", c) /\ UNCHANGED app
    \/ \E t \in DecodeErrors : DoBadBody("poll", t) /\ UNCHANGED app
    \/ \E d \in Responses(now) : DoOK("poll", d) /\ UNCHANGED app
    \/ MuLock("poll") /\ UNCHANGED app
    \/ Install("poll") /\ UNCHANGED app

SpecFetch == InitFetch /\ [][NextFetch]_vars

\* The credential store alone: calls of GetAccessToken as time passes and
\* the file changes, over every credentials file.
InitCreds == InitWith(Files) /\ probe = NoProbe

NextCreds ==
    \/ Tick /\ UNCHANGED app
    \/ \E f \in Files : SourceWrite(f) /\ UNCHANGED app
    \/ CallGetAccessToken /\ UNCHANGED app

SpecCreds == InitCreds /\ [][NextCreds]_vars

\* isExpired alone, over stated expiries and clock readings in milliseconds
\* at and around 0, the margin, and the ends of int64.
ExpiresAtSamples ==
    {0, 1, -1, MarginMs - 1, MarginMs, MarginMs + 1, 2 * MarginMs,
     3 * MarginMs, MinInt64, MinInt64 + 1, MinInt64 + MarginMs - 1,
     MinInt64 + MarginMs, MinInt64 + MarginMs + 1, MaxInt64}

NowSamples ==
    {0, 1, MarginMs - 1, MarginMs, MarginMs + 1, 2 * MarginMs - 1,
     2 * MarginMs, MaxInt64}

InitIsExpired ==
    /\ InitWith(FewFiles)
    /\ probe \in [fn : {"isExpired"}, a : ExpiresAtSamples, b : NowSamples,
                  done : {FALSE}, out : {FALSE}]

CallIsExpired ==
    /\ probe.fn = "isExpired"
    /\ ~probe.done
    /\ probe' = [probe EXCEPT !.done = TRUE,
                              !.out = isExpired(probe.a, probe.b)]
    /\ UNCHANGED <<now, source, oc, credsMu, muWriter, muReaders, state, pc,
                   loc, lastPublish, lastGet>>

NextIsExpired == CallIsExpired /\ UNCHANGED app

SpecIsExpired == InitIsExpired /\ [][NextIsExpired]_vars

\* computeProjection and computeSaturationTime alone, over utilizations
\* at and around 0 and 100, reset times before, at and after now, and
\* windows that are negative, empty, the five-hour one, a week, and long
\* enough for the time to saturation to exceed int64.
LongWindow == MaxInt64 \div 32

CurrentSamples == {-5, 0, 1, 33, 80, 99, 100, 150}

NowSamples2 == {0, 100}

OffsetSamples ==
    {-60, 0, 1, 23, 60, 240, 299, 300, 301, 360, LongWindow \div 2}

WindowSamples == {-300, 0, fiveHourWindow, 7 * 24 * 60, LongWindow}

InitProjection ==
    /\ InitWith(FewFiles)
    /\ \E c \in CurrentSamples, n \in NowSamples2, o \in OffsetSamples,
          w \in WindowSamples, a \in GoArchs,
          f \in {"computeProjection", "computeSaturationTime"} :
           probe = [fn |-> f, a |-> <<c, n + o, n, w>>, b |-> a,
                    done |-> FALSE, out |-> Nil]

CallComputeProjection ==
    /\ probe.fn = "computeProjection"
    /\ ~probe.done
    /\ probe' = [probe EXCEPT
                    !.done = TRUE,
                    !.out = computeProjection(probe.a[1], probe.a[2],
                                              probe.a[3], probe.a[4])]
    /\ UNCHANGED <<now, source, oc, credsMu, muWriter, muReaders, state, pc,
                   loc, lastPublish, lastGet>>

CallComputeSaturationTime ==
    /\ probe.fn = "computeSaturationTime"
    /\ ~probe.done
    /\ probe' = [probe EXCEPT
                    !.done = TRUE,
                    !.out = computeSaturationTime(probe.a[1], probe.a[2],
                                                  probe.a[3], probe.a[4],
                                                  probe.b)]
    /\ UNCHANGED <<now, source, oc, credsMu, muWriter, muReaders, state, pc,
                   loc, lastPublish, lastGet>>

NextProjection ==
    \/ CallComputeProjection /\ UNCHANGED app
    \/ CallComputeSaturationTime /\ UNCHANGED app

SpecProjection == InitProjection /\ [][NextProjection]_vars


\* load on darwin alone, over what the Keychain and the file may hold and
\* what the store held before.
Keychains ==
    {NoUserKeychain, NoEntryKeychain, GarbageKeychain, JsonKeychain("", 0),
     JsonKeychain("", FarMs), JsonKeychain("tokK", 0),
     JsonKeychain("tokK", StaleMs + 1)}

StoresBefore == {Creds("", 0), Creds("tokOld", StaleMs - 1)}

InitKeychain ==
    /\ InitWith(FewFiles)
    /\ \E k \in Keychains, f \in Files, o \in StoresBefore :
           probe = [fn |-> "load", a |-> <<k, f>>, b |-> o, done |-> FALSE,
                    out |-> [oc |-> o, err |-> Nil]]

CallLoadDarwin ==
    /\ probe.fn = "load"
    /\ ~probe.done
    /\ probe' = [probe EXCEPT
                    !.done = TRUE,
                    !.out = loadDarwin(probe.b, probe.a[1], probe.a[2])]
    /\ UNCHANGED <<now, source, oc, credsMu, muWriter, muReaders, state, pc,
                   loc, lastPublish, lastGet>>

NextKeychain == CallLoadDarwin /\ UNCHANGED app

SpecKeychain == InitKeychain /\ [][NextKeychain]_vars


\* Fetch calls of pollLoop and eventLoop that may overlap, as time passes.
NextOverlap ==
    \/ Tick /\ UNCHANGED app
    \/ \E g \in Fetchers : FetchBegins(g) /\ UNCHANGED tray
    \/ \E g \in Fetchers : GetTokenBody(g) /\ UNCHANGED app
    \/ \E g \in Fetchers : DoTransportError(g, DialErrorText) /\ UNCHANGED app
    \/ \E g \in Fetchers :
           \E d \in FewResponses(now) : DoOK(g, d) /\ UNCHANGED app
    \/ \E g \in Fetchers : MuLock(g) /\ UNCHANGED app
    \/ \E g \in Fetchers : FetchInstalls(g) /\ UNCHANGED tray

SpecOverlap == Init /\ [][NextOverlap]_vars


\* Two Fetch calls and a State call, over and over, each step of a call
\* taken in the end: a goroutine that runs goes on running, the
\* http.Client gives up after its Timeout, and a Lock that waits for qc.mu
\* is served although State calls keep coming, since a waiting Lock keeps
\* new RLocks out.
NextLive ==
    \/ \E g \in Fetchers : GetTokenLock(g) /\ UNCHANGED app
    \/ \E g \in Fetchers : GetTokenBody(g) /\ UNCHANGED app
    \/ \E g \in Fetchers : DoTransportError(g, DialErrorText) /\ UNCHANGED app
    \/ \E g \in Fetchers :
           \E d \in FewResponses(now) : DoOK(g, d) /\ UNCHANGED app
    \/ \E g \in Fetchers : MuLock(g) /\ UNCHANGED app
    \/ \E g \in Fetchers : Install(g) /\ UNCHANGED app
    \/ \E r \in Readers : StateRLock(r) /\ UNCHANGED app
    \/ \E r \in Readers : StateCopyA(r) /\ UNCHANGED app
    \/ \E r \in Readers : StateCopyB(r) /\ UNCHANGED app

Answered(g) ==
    \/ DoTransportError(g, DialErrorText)
    \/ \E d \in FewResponses(now) : DoOK(g, d)

SpecLive ==
    /\ Init
    /\ [][NextLive]_vars
    /\ \A g \in Fetchers :
          /\ WF_vars(GetTokenBody(g) /\ UNCHANGED app)
          /\ WF_vars(Answered(g) /\ UNCHANGED app)
          /\ SF_vars(MuLock(g) /\ UNCHANGED app)
          /\ WF_vars(Install(g) /\ UNCHANGED app)
    /\ \A r \in Readers :
          WF_vars((StateCopyA(r) \/ StateCopyB(r)) /\ UNCHANGED app)


\* NewOAuthCredentials alone, over files that are missing, not JSON, or
\* JSON with these tokens and expiries.
TokenSamples == {"", "a", "tokA", "tokB"}

SourceSamples ==
    {MissingFile, GarbageFile}
        \cup {JsonFile(t, e) : t \in TokenSamples, e \in ExpiresAtSamples}

InitNew ==
    /\ InitWith(FewFiles)
    /\ \E f \in SourceSamples :
           probe = [fn |-> "NewOAuthCredentials", a |-> f, b |-> 0,
                    done |-> FALSE, out |-> [oc |-> Nil, err |-> Nil]]

CallNewOAuthCredentials ==
    /\ probe.fn = "NewOAuthCredentials"
    /\ ~probe.done
    /\ probe' = [probe EXCEPT !.done = TRUE,
                              !.out = NewOAuthCredentials(probe.a)]
    /\ UNCHANGED <<now, source, oc, credsMu, muWriter, muReaders, state, pc,
                   loc, lastPublish, lastGet>>

NextNew == CallNewOAuthCredentials /\ UNCHANGED app

SpecNew == InitNew /\ [][NextNew]_vars


\* State called from two goroutines, updatedTicker and eventLoop's
\* updateUI, while pollLoop fetches.
Callers == {"ticker", "event"}

InitState == InitWith(FewFiles) /\ probe = NoProbe

NextState ==
    \/ Tick /\ UNCHANGED app
    \/ GetTokenLock("poll") /\ UNCHANGED app
    \/ GetTokenBody("poll") /\ UNCHANGED app
    \/ DoTransportError("poll", DialErrorText) /\ UNCHANGED app
    \/ \E d \in FewResponses(now) : DoOK("poll", d) /\ UNCHANGED app
    \/ MuLock("poll") /\ UNCHANGED app
    \/ Install("poll") /\ UNCHANGED app
    \/ \E r \in Callers : StateRLock(r) /\ UNCHANGED app
    \/ \E r \in Callers : StateCopyA(r) /\ UNCHANGED app
    \/ \E r \in Callers : StateCopyB(r) /\ UNCHANGED app

SpecState == InitState /\ [][NextState]_vars


\* truncate alone, over strings of up to MaxLen pieces: an ASCII letter,
\* characters of two, three and four bytes, a stray continuation byte and
\* a three-byte character cut short; or a Fetch of pollLoop, over every
\* kind of failure.
Pieces ==
    {<<97>>, <<195, 169>>, <<226, 128, 148>>, <<240, 159, 152, 128>>,
     <<128>>, <<226, 128>>}

RECURSIVE Flatten(_)
Flatten(ps) ==
    IF Len(ps) = 0 THEN <<>> ELSE Head(ps) \o Flatten(Tail(ps))

Strings == {Flatten(ps) : ps \in UNION {[1..k -> Pieces] : k \in 0..MaxLen}}

InitTruncate ==
    /\ InitWith(SomeFiles)
    /\ \/ probe = NoProbe
       \/ /\ source = JsonFile("tokB", FarMs)
          /\ \E t \in Strings, n \in 0..MaxRunes :
                 probe = [fn |-> "truncate", a |-> t, b |-> n,
                          done |-> FALSE, out |-> <<>>]

CallTruncate ==
    /\ probe.fn = "truncate"
    /\ ~probe.done
    /\ probe' = [probe EXCEPT !.done = TRUE,
                              !.out = truncate(probe.a, probe.b)]
    /\ UNCHANGED <<now, source, oc, credsMu, muWriter, muReaders, state, pc,
                   loc, lastPublish, lastGet>>

Fetching == probe.fn = "none"

NextTruncate ==
    \/ CallTruncate /\ UNCHANGED app
    \/ Fetching /\ Tick /\ UNCHANGED app
    \/ \E f \in SomeFiles : Fetching /\ SourceWrite(f) /\ UNCHANGED app
    \/ Fetching /\ GetTokenLock("poll") /\ UNCHANGED app
    \/ Fetching /\ GetTokenBody("poll") /\ UNCHANGED app
    \/ \E t \in TransportErrors :
           Fetching /\ DoTransportError("poll", t) /\ UNCHANGED app
    \/ \E c \in StatusCodes : Fetching /\ DoStatus("poll", c) /\ UNCHANGED app
    \/ \E t \in DecodeErrors :
           Fetching /\ DoBadBody("poll", t) /\ UNCHANGED app
    \/ \E d \in FewResponses(now) :
           Fetching /\ DoOK("poll", d) /\ UNCHANGED app
    \/ Fetching /\ MuLock("poll") /\ UNCHANGED app
    \/ Fetching /\ Install("poll") /\ UNCHANGED app

SpecTruncate == InitTruncate /\ [][NextTruncate]_vars


\* The App after onReady: its first Fetch, made before the loops exist,
\* has left an error snapshot or a data snapshot, and both loops wait at
\* their selects.  Every step of a Fetch that is enabled is taken in the
\* end: the locks are released by their holders and the http.Client gives
\* up after its Timeout.
FirstStates ==
    {setError(EmptyState, Truncated[DialErrorText])}
        \cup {NewState(d, 0, a) : d \in FewResponses(0), a \in GoArchs}

InitShutdown ==
    /\ now = 0
    /\ source \in {f \in FewFiles : IsNil(load(Creds("", 0), f).err)}
    /\ oc = load(Creds("", 0), source).oc
    /\ credsMu = "none"
    /\ muWriter = "none"
    /\ muReaders = {}
    /\ state \in FirstStates
    /\ pc = [p \in Procs |-> "idle"]
    /\ loc = [p \in Procs |-> NoLocals]
    /\ lastPublish = NoPublish
    /\ lastGet = NoGet
    /\ probe = NoProbe
    /\ quit = FALSE
    /\ at = [g \in Fetchers |-> AtSelect]
    /\ uiMu = "none"
    /\ ui = Rendered(EmptyState)

NextShutdown ==
    \/ Tick /\ UNCHANGED app
    \/ Shutdown /\ UNCHANGED tray
    \/ \E g \in Fetchers : SelectQuit(g) /\ UNCHANGED tray
    \/ SelectTimer /\ UNCHANGED tray
    \/ SelectRefresh /\ UNCHANGED tray
    \/ SelectQuitItem /\ UNCHANGED tray
    \/ \E g \in Fetchers : CallFetch(g) /\ UNCHANGED tray
    \/ \E g \in Fetchers : FetchRuns(g)
    \/ \E g \in Fetchers : FetchReturns(g) /\ UNCHANGED tray
    \/ \E g \in Fetchers : UpdateUI(g) /\ UNCHANGED tray

SpecShutdown ==
    /\ InitShutdown
    /\ [][NextShutdown]_vars
    /\ \A g \in Fetchers :
           WF_vars(FetchRuns(g) \/ (FetchReturns(g) /\ UNCHANGED tray))


\* The goroutines that close a.quit, with the loops at their selects.
InitClose ==
    /\ now = 0
    /\ source \in {f \in FewFiles : IsNil(load(Creds("", 0), f).err)}
    /\ oc = load(Creds("", 0), source).oc
    /\ credsMu = "none"
    /\ muWriter = "none"
    /\ muReaders = {}
    /\ state \in FirstStates
    /\ pc = [p \in Procs |-> "idle"]
    /\ loc = [p \in Procs |-> NoLocals]
    /\ lastPublish = NoPublish
    /\ lastGet = NoGet
    /\ probe = NoProbe
    /\ quit = FALSE
    /\ at = [p \in Fetchers \cup Closers |->
                IF p \in Fetchers THEN AtSelect ELSE AtWait]
    /\ uiMu = "none"
    /\ ui = Rendered(EmptyState)

NextClose ==
    \/ Tick /\ UNCHANGED app
    \/ SignalReceived /\ UNCHANGED tray
    \/ QuitClicked /\ UNCHANGED tray
    \/ \E p \in Closers : CheckQuit(p) /\ UNCHANGED tray
    \/ \E p \in Closers : CloseQuit(p) /\ UNCHANGED tray
    \/ \E p \in Closers : AfterClose(p) /\ UNCHANGED tray
    \/ \E g \in Fetchers : SelectQuit(g) /\ UNCHANGED tray

SpecClose == InitClose /\ [][NextClose]_vars


\* pollLoop, eventLoop and updatedTicker after onReady, which has fetched
\* once and called updateUI.  The ticker goes on ticking and finishes each
\* iteration it began.
InitUI ==
    /\ now = 0
    /\ source \in {f \in FewFiles : IsNil(load(Creds("", 0), f).err)}
    /\ oc = load(Creds("", 0), source).oc
    /\ credsMu = "none"
    /\ muWriter = "none"
    /\ muReaders = {}
    /\ state \in FirstStates
    /\ pc = [p \in Procs |-> "idle"]
    /\ loc = [p \in Procs |-> NoLocals]
    /\ lastPublish = NoPublish
    /\ lastGet = NoGet
    /\ probe = NoProbe
    /\ quit = FALSE
    /\ at = [p \in Procs |-> AtSelect]
    /\ uiMu = "none"
    /\ ui = Rendered(state)

TickerStep == TickerFires \/ TickerReads \/ TickerSetTitle

NextUI ==
    \/ Tick /\ UNCHANGED app
    \/ LoopWakes
    \/ \E g \in Fetchers : CallFetch(g) /\ UNCHANGED tray
    \/ \E g \in Fetchers : FetchRuns(g)
    \/ \E g \in Fetchers : FetchReturns(g) /\ UNCHANGED tray
    \/ \E g \in Fetchers : UiLock(g)
    \/ \E g \in Fetchers : UiState(g)
    \/ \E g \in Fetchers : UiRender(g)
    \/ \E g \in Fetchers : UiTitle(g)
    \/ TickerStep

SpecUI == InitUI /\ [][NextUI]_vars /\ WF_vars(TickerStep)

(***************************************************************************)
(* Properties of the published snapshot (Spec, SpecFetch).                 *)
(***************************************************************************)
\* The ways a Fetch fails.
Failures == {"token", "transport", "status", "decode"}

\* A snapshot whose Error is set holds nothing else but TokenExpired.
ErrorOnly(s) == s.Error # <<>> => ~HasQuota(s) /\ IsNil(s.LastUpdate)

\* C1: in every reachable state the snapshot the QuotaClient holds, and
\* every snapshot a State call has returned, is an error snapshot (Error
\* set; no utilization, reset time, projection, saturation time or
\* LastUpdate) or a data snapshot (Error empty): none has Error set
\* together with a quota field.
C1_ErrorOrData ==
    /\ ErrorOnly(state)
    /\ \A r \in Readers : loc[r].returned => ErrorOnly(loc[r].copy)

\* An error snapshot has replaced one with quota fields, and State has
\* returned it.
C1_Witness ==
    /\ state.Error # <<>>
    /\ lastPublish.overHadQuota
    /\ \E r \in Readers : loc[r].returned /\ loc[r].copy = state

\* C2: however State calls interleave with concurrent Fetch calls, the
\* value a State call returns is, field for field, the snapshot qc.state
\* held when the call took its read lock, which is the initial snapshot or
\* the whole snapshot of one install (Install is the only writer and
\* writes all fields at once): no result mixes fields of two snapshots.
C2_NoTornRead ==
    \A r \in Readers : loc[r].returned => loc[r].copy = loc[r].seen

\* A State call has returned a snapshot with quota fields that one Fetch
\* installed, after copying while another Fetch, with a different
\* snapshot, waited for the lock.
C2_Witness ==
    \E r \in Readers :
        /\ loc[r].returned
        /\ loc[r].raced
        /\ HasQuota(loc[r].copy)
        /\ loc[r].copy = loc[r].seen

\* C3: when Fetch calls overlap, qc.state is, from each install until the
\* next, exactly the snapshot that the call which installed last meant to
\* write (so also once all calls have completed), whatever the order in
\* which they were issued or answered: no install is dropped as stale.
C3_LastInstallWins ==
    lastPublish.kind # "none" => state = lastPublish.snap

\* Both Fetch calls have completed and the last install put a data
\* snapshot stamped earlier over one stamped later.
C3_Witness ==
    /\ \A g \in Fetchers : pc[g] = "idle"
    /\ lastPublish.overNewer
    /\ state = lastPublish.snap

\* C4: Fetch returns true if and only if the snapshot it publishes is a
\* data snapshot (Error empty, LastUpdate set); a failure at token
\* acquisition, of the transport, a status other than 200 and a body that
\* does not decode each publish an error snapshot and return false.
C4_TrueIffData ==
    lastPublish.kind # "none" =>
        /\ lastPublish.ret <=>
               (lastPublish.snap.Error = <<>>
                    /\ ~IsNil(lastPublish.snap.LastUpdate))
        /\ lastPublish.kind \in Failures =>
               (/\ lastPublish.snap.Error # <<>>
                /\ ErrorOnly(lastPublish.snap)
                /\ ~lastPublish.ret)

\* A Fetch whose 200 body did not decode published an error snapshot over
\* a data snapshot and returned false.
C4_Witness ==
    /\ lastPublish.kind = "decode"
    /\ lastPublish.overHadQuota
    /\ ~lastPublish.ret
    /\ state.Error # <<>>

\* C5: after a failing Fetch (credentials, network, status, decode) and
\* until another Fetch installs, the snapshot State reads holds no
\* utilization, reset time, projection, saturation time or LastUpdate,
\* whatever the snapshot before it held.
C5_NoStaleQuota ==
    lastPublish.kind \in Failures =>
        ~HasQuota(state) /\ IsNil(state.LastUpdate)

\* A Fetch that failed at token acquisition has replaced a snapshot that
\* held quota fields.
C5_Witness ==
    /\ lastPublish.kind = "token"
    /\ lastPublish.overHadQuota
    /\ ~HasQuota(state)
    /\ IsNil(state.LastUpdate)

\* C6: the TokenExpired flag of a published snapshot is true if and only
\* if the Fetch that published it failed at token acquisition with an
\* error that errors.Is matches to ErrTokenExpired; after a transport
\* failure, a status other than 200, a decode failure or a success it is
\* false, also when the snapshot before had it true.
C6_TokenExpiredIffExpiry ==
    lastPublish.kind # "none" =>
        /\ lastPublish.snap.TokenExpired <=>
               (/\ lastPublish.kind = "token"
                /\ ~IsNil(lastPublish.err)
                /\ ErrorsIs(Deref(lastPublish.err), "ErrTokenExpired"))
        /\ state.TokenExpired = lastPublish.snap.TokenExpired

\* A Fetch that failed after token acquisition has replaced a snapshot that
\* had TokenExpired set.
C6_Witness ==
    /\ lastPublish.kind \in {"transport", "status", "decode"}
    /\ lastPublish.overTokenExpired
    /\ ~state.TokenExpired

(***************************************************************************)
(* Properties of the two locks (Spec).                                     *)
(***************************************************************************)
\* A Fetch that is acquiring the token, or waits for or decodes the answer.
OnNetwork(g) == pc[g] \in {"getToken", "http"}

\* A Fetch that is at its install: waiting for qc.mu or holding it.
AtInstall(g) == pc[g] \in {"muLock", "install"}

\* C11: the snapshot lock is never held by a Fetch that is acquiring the
\* token, waiting on the request or decoding the body; a State call made
\* while the Fetch calls in flight are all so occupied takes the read lock
\* at once, goes on to return, and what it copies is the snapshot
\* published before.
C11_NoLockOnNetwork ==
    /\ \A g \in Fetchers : OnNetwork(g) => muWriter # g
    /\ \A r \in Readers :
          /\ (pc[r] = "idle" /\ \A g \in Fetchers : ~AtInstall(g))
                 => ENABLED StateRLock(r)
          /\ pc[r] = "copyA" => loc[r].seen = state /\ ENABLED StateCopyA(r)
          /\ pc[r] = "copyB" => loc[r].seen = state /\ ENABLED StateCopyB(r)

\* A State call that took the read lock while a Fetch waited on the
\* network is copying a snapshot with quota fields, published before, and
\* that Fetch still waits.
C11_Witness ==
    \E r \in Readers :
        /\ pc[r] = "copyB"
        /\ loc[r].io
        /\ \E g \in Fetchers : pc[g] = "http"
        /\ HasQuota(state)
        /\ loc[r].seen = state

\* C12: while a goroutine holds the credential lock in GetAccessToken (a
\* reload included), it does not hold the snapshot lock, and a State call
\* can take the read lock and return: whether State can take its lock
\* depends on the snapshot lock alone.
C12_LocksIndependent ==
    /\ credsMu # "none" => muWriter # credsMu /\ pc[credsMu] = "getToken"
    /\ \A r \in Readers :
          /\ (pc[r] = "idle" /\ muWriter = "none") => ENABLED StateRLock(r)
          /\ (credsMu # "none" /\ pc[r] = "copyA") => ENABLED StateCopyA(r)
          /\ (credsMu # "none" /\ pc[r] = "copyB") => ENABLED StateCopyB(r)

\* A State call that took the read lock while the credential lock was held
\* is about to return, the credential lock being held for a reload of an
\* expired token.
C12_Witness ==
    \E r \in Readers :
        /\ pc[r] = "copyB"
        /\ loc[r].cr
        /\ credsMu # "none"
        /\ isExpired(oc.expiresAt, UnixMilli(now))

(***************************************************************************)
(* Properties of the projection in Fetch (SpecFetch).                      *)
(***************************************************************************)
\* The buckets of a response and of a snapshot, and a snapshot's values
\* for one of them (QuotaState has a projection and a saturation time for
\* the five-hour bucket only).
BucketNames == {"FiveHour", "SevenDay", "SevenDaySonnet"}

UtilOf(s, b) ==
    CASE b = "FiveHour" -> s.FiveHour
      [] b = "SevenDay" -> s.SevenDay
      [] b = "SevenDaySonnet" -> s.SevenDaySonnet

ResetsOf(s, b) ==
    CASE b = "FiveHour" -> s.FiveHourResets
      [] b = "SevenDay" -> s.SevenDayResets
      [] b = "SevenDaySonnet" -> s.SevenDaySonnetResets

ProjectedOf(s, b) == IF b = "FiveHour" THEN s.FiveHourProjected ELSE Nil

SaturationOf(s, b) == IF b = "FiveHour" THEN s.FiveHourSaturation ELSE Nil

HasBoth(s, b) == ~IsNil(UtilOf(s, b)) /\ ~IsNil(ResetsOf(s, b))

\* C13: in a successful Fetch, computeProjection is called for a bucket
\* if and only if the bucket has both a utilization and a reset time, for
\* each of the five-hour, seven-day and seven-day-sonnet buckets; and a
\* bucket that lacks either has no projected utilization and no saturation
\* time.
C13_ProjectsEveryBucket ==
    lastPublish.kind = "ok" =>
        \A b \in BucketNames :
            /\ b \in lastPublish.calls <=> HasBoth(lastPublish.snap, b)
            /\ ~HasBoth(lastPublish.snap, b) =>
                   (/\ IsNil(ProjectedOf(lastPublish.snap, b))
                    /\ IsNil(SaturationOf(lastPublish.snap, b)))

\* The arguments of the call under check.
ProbeCurrent == probe.a[1]
ProbeResetsAt == probe.a[2]
ProbeNow == probe.a[3]
ProbeWindow == probe.a[4]
ProbeElapsed == ProbeWindow - (ProbeResetsAt - ProbeNow)

\* C14: for all (current, resetsAt, now, W), computeProjection returns
\* nothing when current <= 0, when resetsAt is not strictly after now, or
\* when W - (resetsAt - now) <= 0, and in every other case the value
\* current * W / (W - (resetsAt - now)), as that fraction, not capped at
\* 100.
C14_ProjectionRule ==
    (probe.done /\ probe.fn = "computeProjection") =>
        IF \/ ProbeCurrent <= 0
           \/ ~(ProbeResetsAt > ProbeNow)
           \/ ProbeElapsed <= 0
        THEN IsNil(probe.out)
        ELSE probe.out = Some([num |-> ProbeCurrent * ProbeWindow,
                               den |-> ProbeElapsed])

\* computeProjection has returned a projection above 100.
C14_Witness ==
    /\ probe.done
    /\ probe.fn = "computeProjection"
    /\ ~IsNil(probe.out)
    /\ FracGt(Deref(probe.out), 100)

\* C15: for all (current, resetsAt, now, W), computeSaturationTime
\* returns nothing when current <= 0, when current >= 100, when resetsAt
\* is not after now, when the elapsed time W - (resetsAt - now) is <= 0,
\* or when now + elapsed * (100 - current) / current is not strictly
\* before resetsAt; otherwise it returns that instant (at the resolution of
\* the clock).
C15_SaturationRule ==
    (probe.done /\ probe.fn = "computeSaturationTime") =>
        IF \/ ProbeCurrent <= 0
           \/ ProbeCurrent >= 100
           \/ ~(ProbeResetsAt > ProbeNow)
           \/ ProbeElapsed <= 0
           \/ ~(ProbeElapsed * (100 - ProbeCurrent)
                    < (ProbeResetsAt - ProbeNow) * ProbeCurrent)
        THEN IsNil(probe.out)
        ELSE probe.out =
                 Some(ProbeNow
                      + (ProbeElapsed * (100 - ProbeCurrent))
                            \div ProbeCurrent)

BucketOf(data, b) ==
    CASE b = "FiveHour" -> data.FiveHour
      [] b = "SevenDay" -> data.SevenDay
      [] b = "SevenDaySonnet" -> data.SevenDaySonnet

SentUtil(data, b) ==
    IF IsNil(BucketOf(data, b)) THEN Nil
    ELSE Deref(BucketOf(data, b)).Utilization

SentResets(data, b) ==
    IF IsNil(BucketOf(data, b)) THEN Nil
    ELSE LET r == Deref(BucketOf(data, b)).ResetsAt
         IN  IF IsNil(r) \/ ~Deref(r).rfc3339 THEN Nil
             ELSE Some(Deref(r).t)

BadResets(data, b) ==
    /\ ~IsNil(BucketOf(data, b))
    /\ ~IsNil(Deref(BucketOf(data, b)).ResetsAt)
    /\ ~Deref(Deref(BucketOf(data, b)).ResetsAt).rfc3339

\* C17: when a 200 response has a bucket whose resets_at is not RFC3339,
\* Fetch still returns true and publishes a data snapshot in which that
\* bucket has no reset time, projection or saturation time, while its
\* utilization, and the utilization and reset time of every other bucket,
\* are those sent, and the five-hour projection is there when the
\* five-hour bucket has both values and the window has begun.
C17_BadTimeDegrades ==
    \A b \in BucketNames :
        (lastPublish.kind = "ok" /\ BadResets(lastPublish.data, b)) =>
            /\ lastPublish.ret
            /\ lastPublish.snap.Error = <<>>
            /\ ~IsNil(lastPublish.snap.LastUpdate)
            /\ IsNil(ResetsOf(lastPublish.snap, b))
            /\ IsNil(ProjectedOf(lastPublish.snap, b))
            /\ IsNil(SaturationOf(lastPublish.snap, b))
            /\ \A o \in BucketNames :
                  /\ UtilOf(lastPublish.snap, o) = SentUtil(lastPublish.data, o)
                  /\ ResetsOf(lastPublish.snap, o)
                         = SentResets(lastPublish.data, o)
            /\ (/\ b # "FiveHour"
                /\ HasBoth(lastPublish.snap, "FiveHour")
                /\ Deref(lastPublish.snap.FiveHour) > 0
                /\ Deref(lastPublish.snap.FiveHourResets)
                       > Deref(lastPublish.snap.LastUpdate)
                /\ Deref(lastPublish.snap.FiveHourResets)
                       < Deref(lastPublish.snap.LastUpdate) + fiveHourWindow)
               => ~IsNil(lastPublish.snap.FiveHourProjected)

\* A Fetch has returned true for a response whose seven-day resets_at is
\* not RFC3339: the snapshot has the seven-day utilization without a reset
\* time, and the five-hour bucket with its projection.
C17_Witness ==
    /\ lastPublish.kind = "ok"
    /\ BadResets(lastPublish.data, "SevenDay")
    /\ lastPublish.ret
    /\ state.SevenDay = Some(30)
    /\ IsNil(state.SevenDayResets)
    /\ ~IsNil(state.FiveHourResets)
    /\ ~IsNil(state.FiveHourProjected)

\* C18: one Fetch calls load at most once and client.Do at most once and
\* writes qc.state exactly once; a Fetch that fails returns false after
\* that one attempt, and a Fetch whose token acquisition fails sends no
\* request.
C18_OneAttempt ==
    /\ \A g \in Fetchers :
          /\ loc[g].loads <= 1
          /\ loc[g].reqs <= 1
          /\ loc[g].writes = 0
          /\ loc[g].kind = "token" => loc[g].reqs = 0
    /\ lastPublish.kind # "none" =>
          /\ lastPublish.loads <= 1
          /\ lastPublish.reqs <= 1
          /\ lastPublish.writes = 1
          /\ lastPublish.kind \in Failures => ~lastPublish.ret
          /\ lastPublish.kind = "token" => lastPublish.reqs = 0

\* A Fetch that reloaded the credentials and got a status other than 200
\* has returned false after one load, one request and one write.
C18_Witness ==
    /\ lastPublish.kind = "status"
    /\ lastPublish.loads = 1
    /\ lastPublish.reqs = 1
    /\ lastPublish.writes = 1
    /\ ~lastPublish.ret

(***************************************************************************)
(* Properties of the credential store (SpecCreds, SpecIsExpired).          *)
(***************************************************************************)
\* The expiry rule over the integers: an expiry is stated (not 0) and the
\* clock has come within the margin of it.
PastMargin(expiresAt, nowMs) ==
    expiresAt # 0 /\ nowMs >= expiresAt - MarginMs

\* Whether load accepts the file.
Loadable(file) == file.kind = "json" /\ file.accessToken # ""

\* C7: when GetAccessToken is called with an expired cached token and the
\* credentials file then holds a token that is not expired, the call reads
\* the file, replaces the cached token and expiry with the file's and
\* returns the reloaded token with no error.
C7_ExpiredReloads ==
    (/\ lastGet.called
     /\ PastMargin(lastGet.pre.expiresAt, lastGet.nowMs)
     /\ Loadable(lastGet.file)
     /\ ~PastMargin(lastGet.file.expiresAt, lastGet.nowMs))
    => (/\ lastGet.read
        /\ lastGet.post =
               Creds(lastGet.file.accessToken, lastGet.file.expiresAt)
        /\ lastGet.tok = lastGet.file.accessToken
        /\ IsNil(lastGet.err))

\* C8: when GetAccessToken is called with an expired cached token, it
\* returns an error that errors.Is matches to ErrTokenExpired, and no
\* token, both when the file's token is expired too and when load fails
\* (file unreadable, not JSON, or without an access token); and a call
\* that returns without error never leaves the store with an expired
\* token, the one it returned.
C8_ExpiredIsAnError ==
    (lastGet.called /\ PastMargin(lastGet.pre.expiresAt, lastGet.nowMs))
    => (/\ (\/ ~Loadable(lastGet.file)
            \/ PastMargin(lastGet.file.expiresAt, lastGet.nowMs))
           => (/\ ~IsNil(lastGet.err)
               /\ ErrorsIs(Deref(lastGet.err), "ErrTokenExpired")
               /\ lastGet.tok = "")
        /\ IsNil(lastGet.err)
           => ~PastMargin(lastGet.post.expiresAt, lastGet.nowMs))

\* C9: when the cached token is not expired (an expiresAt of 0 included),
\* GetAccessToken returns the cached token without reading the
\* credentials file and leaves the cached token and expiry as they were,
\* also when the file has changed or is gone.
C9_ValidIsCached ==
    (lastGet.called /\ ~PastMargin(lastGet.pre.expiresAt, lastGet.nowMs))
    => (/\ IsNil(lastGet.err)
        /\ lastGet.tok = lastGet.pre.accessToken
        /\ ~lastGet.read
        /\ lastGet.post = lastGet.pre)

\* A call with a cached token of unknown expiry, made when the file is
\* gone, has returned the cached token.
C9_Witness ==
    /\ lastGet.called
    /\ lastGet.pre.expiresAt = 0
    /\ lastGet.file = MissingFile
    /\ lastGet.tok = lastGet.pre.accessToken
    /\ lastGet.tok # ""
    /\ lastGet.post = lastGet.pre

\* C10: for every expiresAt and every clock reading in milliseconds,
\* isExpired is false when expiresAt is 0 and otherwise true exactly when
\* now_ms >= expiresAt_ms - 60000.
C10_IsExpiredRule ==
    probe.done => (probe.out <=> PastMargin(probe.a, probe.b))

(***************************************************************************)
(* Properties of a Fetch that follows a failed one.                        *)
(***************************************************************************)
\* C19: failures do not stick.  When qc.state holds an error snapshot, a
\* Fetch that finds a loadable, non-expired token in the credentials file
\* gets its token and sends the request; a 200 response that decodes makes
\* it build a data snapshot and return true; and installing that snapshot
\* over the error snapshot leaves Error empty, TokenExpired false and
\* LastUpdate set, with nothing else done in between.
C19_FailuresDoNotStick ==
    [][\A g \in Fetchers :
          /\ (/\ pc[g] = "getToken"
              /\ pc'[g] # "getToken"
              /\ state.Error # <<>>
              /\ Loadable(source)
              /\ ~PastMargin(source.expiresAt, UnixMilli(now)))
             => (pc'[g] = "http" /\ loc'[g].kind = "none")
          /\ (/\ pc[g] = "http"
              /\ loc'[g].kind = "ok"
              /\ state.Error # <<>>)
             => (/\ pc'[g] = "muLock"
                 /\ loc'[g].ret
                 /\ loc'[g].how = "assign"
                 /\ loc'[g].snap.Error = <<>>
                 /\ ~loc'[g].snap.TokenExpired)
          /\ (/\ pc[g] = "install"
              /\ pc'[g] = "idle"
              /\ loc[g].kind = "ok"
              /\ state.Error # <<>>)
             => (/\ lastPublish'.ret
                 /\ state'.Error = <<>>
                 /\ ~state'.TokenExpired
                 /\ ~IsNil(state'.LastUpdate)
                 /\ state' = loc[g].snap)]_vars

\* A Fetch that found the token expired has been followed by one that
\* reloaded the credentials, got a 200 and returned true: the state is a
\* data snapshot.
C19_Witness ==
    /\ lastPublish.kind = "ok"
    /\ lastPublish.overTokenExpired
    /\ lastPublish.loads = 1
    /\ lastPublish.ret
    /\ state.Error = <<>>
    /\ ~state.TokenExpired
    /\ HasQuota(state)

(***************************************************************************)
(* Properties of shutdown.                                                 *)
(***************************************************************************)
\* A Fetch of loop g that was in flight when quit was closed, or was begun
\* after, has not returned yet.
InFlight(g) == quit /\ at[g].pos = "fetch"

\* A Fetch in flight is not interrupted: the only way out of it is the
\* installation of the snapshot it built, and it gets there.
NotInterrupted ==
    /\ [][\A g \in Fetchers :
             (at[g].pos = "fetch" /\ at'[g].pos # "fetch")
             => (/\ at'[g].pos = "ui"
                 /\ pc[g] = "install"
                 /\ state' = Installed(state, loc[g])
                 /\ lastPublish'.snap = Written(loc[g]))]_vars
    /\ \A g \in Fetchers : InFlight(g) ~> (at[g].pos = "ui")

KeychainGood(k) == k.kind = "json" /\ k.accessToken # ""

\* C21: on darwin, load takes token and expiry from the Keychain when the
\* lookup succeeds with a non-empty access token; otherwise it takes both
\* from the file, or neither when the file is not accepted; the store is
\* never a token of one source with the expiry of the other.
C21_OneSourceOnly ==
    (probe.fn = "load" /\ probe.done) =>
        LET k == probe.a[1]
            f == probe.a[2]
            pre == probe.b
            post == probe.out.oc
        IN  /\ KeychainGood(k) =>
                  /\ IsNil(probe.out.err)
                  /\ post = Creds(k.accessToken, k.expiresAt)
            /\ (~KeychainGood(k) /\ Loadable(f)) =>
                  /\ IsNil(probe.out.err)
                  /\ post = Creds(f.accessToken, f.expiresAt)
            /\ (~KeychainGood(k) /\ ~Loadable(f)) =>
                  /\ ~IsNil(probe.out.err)
                  /\ post = pre
            /\ post \in {pre, Creds(k.accessToken, k.expiresAt),
                         Creds(f.accessToken, f.expiresAt)}

\* The Keychain entry had an expiry but no token, the file a token with
\* another expiry: the store holds the file's pair.
C21_Witness ==
    /\ probe.fn = "load"
    /\ probe.done
    /\ probe.a[1] = JsonKeychain("", FarMs)
    /\ probe.a[2] = JsonFile("tokA", SoonMs)
    /\ probe.out.oc = Creds("tokA", SoonMs)

(***************************************************************************)
(* Properties of truncate and of the Error text (SpecTruncate).            *)
(***************************************************************************)
\* Whether s is the UTF-8 encoding of its runes.
ValidUtf8(s) == String(Runes(s)) = s

\* Whether t is s cut at a byte where a character of s begins or ends.
CutAtCharacter(t, s) ==
    /\ Len(t) <= Len(s)
    /\ t = SubSeq(s, 1, Len(t))
    /\ Len(t) < Len(s) => ~IsCont(s, Len(t) + 1)

\* C22: the Error of every published snapshot has at most 50 runes, and
\* truncate(s, n) is s when s has at most n runes, else the first n runes
\* of s and no more, which for a s of valid UTF-8 is s cut between two
\* characters.
C22_TruncateRule ==
    /\ Len(Runes(state.Error)) <= 50
    /\ Len(Runes(lastPublish.snap.Error)) <= 50
    /\ (probe.fn = "truncate" /\ probe.done) =>
          IF Len(Runes(probe.a)) <= probe.b
          THEN probe.out = probe.a
          ELSE /\ Len(Runes(probe.out)) = probe.b
               /\ Runes(probe.out) = SubSeq(Runes(probe.a), 1, probe.b)
               /\ ValidUtf8(probe.a) => CutAtCharacter(probe.out, probe.a)

\* truncate has cut a text of three characters and six bytes after its
\* second character, of three bytes; and a Fetch has published an Error of
\* exactly 50 runes.
C22_Witness ==
    \/ /\ probe.fn = "truncate"
       /\ probe.done
       /\ probe.a = <<195, 169, 226, 128, 148, 97>>
       /\ probe.b = 2
       /\ probe.out = <<195, 169, 226, 128, 148>>
    \/ /\ lastPublish.kind = "token"
       /\ Len(Runes(state.Error)) = 50
       /\ Len(state.Error) > 50

(***************************************************************************)
(* Properties of State (SpecState).                                        *)
(***************************************************************************)
\* A step in which a Fetch installs its snapshot.
InstallStep == \E g \in Fetchers : pc[g] = "install" /\ pc'[g] = "idle"

\* C23: State has no effect.  No step of a State call changes the stored
\* snapshot, the credential store or the credentials file; the value a
\* call returns is the stored snapshot, the same that any earlier call
\* which read this stored snapshot returned; and the stored snapshot
\* changes only when a Fetch installs, so that the calls which return
\* between two installs all return the same snapshot.
C23_StateHasNoEffect ==
    [][/\ \A r \in Callers :
             /\ pc'[r] # pc[r] =>
                   /\ state' = state
                   /\ oc' = oc
                   /\ source' = source
                   /\ lastPublish' = lastPublish
             /\ (pc[r] = "copyB" /\ pc'[r] = "idle") =>
                   /\ loc'[r].returned
                   /\ loc'[r].copy = state'
                   /\ \A h \in Callers :
                         (loc[h].returned /\ loc[h].seen = state)
                         => loc'[r].copy = loc[h].copy
       /\ ~InstallStep => state' = state]_vars

\* Two State calls have returned since the last install, which put an
\* error snapshot in place of a data snapshot: both returned that error
\* snapshot, and it is still the stored one.
C23_Witness ==
    /\ lastPublish.kind = "transport"
    /\ lastPublish.overHadQuota
    /\ \A r \in Callers : loc[r].returned /\ loc[r].seen = lastPublish.snap
    /\ loc["ticker"].copy = loc["event"].copy
    /\ loc["ticker"].copy = state

(***************************************************************************)
(* Properties of NewOAuthCredentials (SpecNew).                            *)
(***************************************************************************)
\* C24: NewOAuthCredentials returns an error and no store when the file
\* is missing, is not JSON, or has an empty or absent access token, and
\* otherwise returns, without error, a store that holds the file's token
\* and expiry.
C24_NewFailsOrLoads ==
    (probe.fn = "NewOAuthCredentials" /\ probe.done) =>
        IF \/ probe.a.kind = "missing"
           \/ probe.a.kind = "garbage"
           \/ probe.a.accessToken = ""
        THEN ~IsNil(probe.out.err) /\ IsNil(probe.out.oc)
        ELSE /\ IsNil(probe.out.err)
             /\ probe.out.oc
                    = Some(Creds(probe.a.accessToken, probe.a.expiresAt))

\* The file had an expiry but an empty access token: no store, an error.
C24_Witness ==
    /\ probe.fn = "NewOAuthCredentials"
    /\ probe.done
    /\ probe.a = JsonFile("", MarginMs)
    /\ IsNil(probe.out.oc)
    /\ ~IsNil(probe.out.err)
    /\ Deref(probe.out.err).text = MissingTokenText

(***************************************************************************)
(* Properties of the closing of a.quit (SpecClose).                        *)
(***************************************************************************)
\* C25: however Shutdown from the signal goroutine, Shutdown from the
\* click on Quit and onExit interleave, a.quit is closed once: no
\* goroutine closes it when it is closed already.
C25_ClosedOnce == \A p \in Closers : at[p].pos # "panic"

(***************************************************************************)
(* Properties of the locks under load (SpecLive).                          *)
(***************************************************************************)
\* Whether goroutine p holds qc.mu, for writing or for reading.
HoldsMu(p) == muWriter = p \/ p \in muReaders

\* A step of the call that p has in progress.
StepOf(p) ==
    \/ GetTokenBody(p) /\ UNCHANGED app
    \/ Answered(p) /\ UNCHANGED app
    \/ MuLock(p) /\ UNCHANGED app
    \/ Install(p) /\ UNCHANGED app
    \/ (StateCopyA(p) \/ StateCopyB(p)) /\ UNCHANGED app

\* C26: no goroutine holds the credential lock and qc.mu at once; whenever
\* calls are in progress one of them can take a step; and every call in
\* progress returns.
C26_NoDeadlock ==
    /\ [](\A p \in Procs : ~(credsMu = p /\ HoldsMu(p)))
    /\ []((\E p \in Procs : pc[p] # "idle")
             => \E p \in Procs : pc[p] # "idle" /\ ENABLED StepOf(p))
    /\ \A p \in Procs : (pc[p] # "idle") ~> (pc[p] = "idle")

\* One Fetch waits for qc.mu, which State holds for reading, while the
\* other Fetch holds the credential lock.
C26_Witness ==
    /\ pc["poll"] = "muLock"
    /\ muReaders = {"ticker"}
    /\ credsMu = "event"
    /\ pc["event"] = "getToken"

(***************************************************************************)
(* Properties of a reload (SpecCreds).                                     *)
(***************************************************************************)
\* C27: a GetAccessToken whose reload fails, the file being unreadable,
\* not JSON or without an access token, leaves the cached token and expiry
\* as they were and returns an error; and whenever a call changes the
\* store, the store then holds the token and the expiry of a file that
\* load accepts.
C27_FailedReloadKeeps ==
    lastGet.called =>
        /\ (lastGet.read /\ ~Loadable(lastGet.file)) =>
              /\ lastGet.post = lastGet.pre
              /\ ~IsNil(lastGet.err)
              /\ lastGet.tok = ""
        /\ lastGet.post # lastGet.pre =>
              /\ lastGet.read
              /\ Loadable(lastGet.file)
              /\ lastGet.post =
                     Creds(lastGet.file.accessToken, lastGet.file.expiresAt)
        /\ oc = lastGet.post

\* A reload has met a file with an expiry and no access token: the store
\* still holds the expired token and its expiry.
C27_Witness ==
    /\ lastGet.called
    /\ lastGet.read
    /\ lastGet.file.kind = "json"
    /\ lastGet.file.accessToken = ""
    /\ lastGet.pre.accessToken # ""
    /\ lastGet.pre.expiresAt # lastGet.file.expiresAt
    /\ oc = lastGet.pre

(***************************************************************************)
(* Properties of LastUpdate from install to install (SpecOverlap).         *)
(***************************************************************************)
\* Fetch g installs a data snapshot over a data snapshot.
DataOverData(g) ==
    /\ pc[g] = "install"
    /\ pc'[g] = "idle"
    /\ loc[g].kind = "ok"
    /\ ~IsNil(state.LastUpdate)

\* C28, as stated: from one install of a data snapshot to the next,
\* LastUpdate never decreases, also when the Fetch calls overlap.
C28_LastUpdateNeverDecreases ==
    [][\A g \in Fetchers :
          DataOverData(g) =>
              Deref(state'.LastUpdate) >= Deref(state.LastUpdate)]_vars

\* C28, amended: LastUpdate is the time at which the installing Fetch
\* read the clock, never later than the install; it does not decrease
\* from one install of a data snapshot to the next when no other Fetch
\* has installed since the installing Fetch was called.
C28_LastUpdateOfSerialCalls ==
    [][\A g \in Fetchers :
          DataOverData(g) =>
              /\ state'.LastUpdate = loc[g].snap.LastUpdate
              /\ Deref(state'.LastUpdate) <= now
              /\ ~at[g].crossed =>
                    Deref(state'.LastUpdate) >= Deref(state.LastUpdate)]_vars

\* Two Fetch calls, one after the other was over, have installed data
\* snapshots, the second with a later LastUpdate.
C28_Witness ==
    /\ \A g \in Fetchers : pc[g] = "idle" /\ ~at[g].crossed
    /\ lastPublish.kind = "ok"
    /\ lastPublish.overHadQuota
    /\ ~lastPublish.overNewer
    /\ state.LastUpdate = Some(MaxClock)

(***************************************************************************)
(* What a saturation time in a snapshot implies (SpecFetch).               *)
(***************************************************************************)
\* C29: in every snapshot Fetch publishes, a five-hour saturation time
\* that is present comes with a five-hour projection that is present and
\* above 100 and with a five-hour utilization strictly between 0 and 100,
\* and lies from LastUpdate on and before the five-hour reset time.
C29_SaturationImplies ==
    ~IsNil(lastPublish.snap.FiveHourSaturation) =>
        /\ ~IsNil(lastPublish.snap.FiveHourProjected)
        /\ FracGt(Deref(lastPublish.snap.FiveHourProjected), 100)
        /\ ~IsNil(lastPublish.snap.FiveHour)
        /\ Deref(lastPublish.snap.FiveHour) > 0
        /\ Deref(lastPublish.snap.FiveHour) < 100
        /\ ~IsNil(lastPublish.snap.LastUpdate)
        /\ ~IsNil(lastPublish.snap.FiveHourResets)
        /\ Deref(lastPublish.snap.LastUpdate)
               <= Deref(lastPublish.snap.FiveHourSaturation)
        /\ Deref(lastPublish.snap.FiveHourSaturation)
               < Deref(lastPublish.snap.FiveHourResets)

\* A published snapshot with a saturation time after its LastUpdate.
C29_Witness ==
    /\ ~IsNil(lastPublish.snap.FiveHourSaturation)
    /\ ~IsNil(lastPublish.snap.LastUpdate)
    /\ Deref(lastPublish.snap.FiveHourSaturation)
           > Deref(lastPublish.snap.LastUpdate)
    /\ lastPublish.ret

(***************************************************************************)
(* What the tray shows once the loops are at rest (SpecUI).                *)
(***************************************************************************)
\* C30: whenever no Fetch()+updateUI() pair is in progress, the icon, the
\* tooltip and the quota lines are those updateUI rendered from the
\* snapshot State() returns now; while that lasts, an iteration of
\* updatedTicker begun since sets the "Updated" title from that snapshot's
\* LastUpdate and the title then stays so; and if it lasts for ever the
\* title is in the end for ever that of the snapshot's LastUpdate.
C30_TrayShowsCurrentSnapshot ==
    /\ [](Quiescent =>
              /\ ui.icon = state
              /\ ui.tooltip = state
              /\ ui.lines = state
              /\ (ui.calm /\ at["ticker"].pos = "select")
                     => ui.title = state.LastUpdate)
    /\ <>[]Quiescent => <>[](ui.title = state.LastUpdate)

\* Both loops have fetched and updated the tray, the last snapshot is a
\* later one than the first, and a tick since has set the title.
C30_Witness ==
    /\ Quiescent
    /\ ui.calm
    /\ at["ticker"].pos = "select"
    /\ lastPublish.kind = "ok"
    /\ lastPublish.overHadQuota
    /\ state.LastUpdate = Some(MaxClock)
    /\ ui.icon = state
    /\ ui.title = state.LastUpdate

=============================================================================
